---------------------------- MODULE Spec2Model ----------------------------
(***************************************************************************)
(* A model of olad's RDMHttpModule (src/olad/RDMHttpModule.cpp): the       *)
(* per-universe UID label-resolution engine and the section dispatch.      *)
(*                                                                         *)
(* Every handler of the module runs to completion on the single event      *)
(* loop, so each handler is one action.  The requests a handler hands to   *)
(* the RDM API stay in `outstanding' until the transport runs their        *)
(* callback, which is another action.                                      *)
(***************************************************************************)
EXTENDS Integers, Sequences, FiniteSets, Bags, TLC

(***************************************************************************)
(* Bounds of the model.                                                    *)
(***************************************************************************)
\* HandleUIDList is not taken when it would leave more records queued
MaxPending == 3
\* no request is handed to the transport beyond this many outstanding ones
MaxOutstanding == 2

\* the universe ids in play
Universes == {1, 2}
\* the UIDs in play, ordered as ola::rdm::UID is
UIDs == {1, 2}
\* the label strings a device may answer with
Labels == {"Acme"}

(***************************************************************************)
(* uid_resolve_action and ola::rdm::ResponseStatus                         *)
(***************************************************************************)
RESOLVE_MANUFACTURER == "RESOLVE_MANUFACTURER"
RESOLVE_DEVICE == "RESOLVE_DEVICE"
uid_resolve_action == {RESOLVE_MANUFACTURER, RESOLVE_DEVICE}

TRANSPORT_ERROR == "TRANSPORT_ERROR"
BROADCAST_REQUEST == "BROADCAST_REQUEST"
REQUEST_NACKED == "REQUEST_NACKED"
MALFORMED_RESPONSE == "MALFORMED_RESPONSE"
VALID_RESPONSE == "VALID_RESPONSE"
\* a response type outside the enumeration (the switch's default branch)
UNKNOWN_STATUS == "UNKNOWN_STATUS"
ResponseTypes == {TRANSPORT_ERROR, BROADCAST_REQUEST, REQUEST_NACKED,
                  MALFORMED_RESPONSE, VALID_RESPONSE, UNKNOWN_STATUS}

VARIABLES
    m_universe_uids,  \* map<unsigned int, uid_resolution_state*>
    outstanding,      \* bag of the label requests whose callback has not run
    chain,            \* the section request being served: the callback it
                      \* waits for, what it carries, the replies sent so far
    discovery,        \* how sort() of this build orders equal sections, and
                      \* the last section list that was served
    ev                \* what the last handler was called with and what it did

vars == <<m_universe_uids, outstanding, chain, discovery, ev>>

(***************************************************************************)
(* Helpers on sequences, sets and bags                                     *)
(***************************************************************************)
Min(S) == CHOOSE x \in S : \A y \in S : x <= y

\* the elements of a UIDSet in the order its iterator visits them
RECURSIVE SortedSeq(_)
SortedSeq(S) == IF S = {} THEN <<>>
                ELSE <<Min(S)>> \o SortedSeq(S \ {Min(S)})

Range(s) == {s[i] : i \in DOMAIN s}

\* the number of requests of universe u in a bag of label requests
RECURSIVE CopiesOf(_, _)
CopiesOf(bag, S) ==
    IF S = {} THEN 0
    ELSE LET r == CHOOSE x \in S : TRUE
         IN CopiesIn(r, bag) + CopiesOf(bag, S \ {r})

OutstandingIn(bag, u) ==
    CopiesOf(bag, {r \in BagToSet(bag) : r.universe = u})

\* the number of outstanding label requests of universe u
OutstandingFor(u) == OutstandingIn(outstanding, u)


(***************************************************************************)
(* The resolution state                                                    *)
(***************************************************************************)
\* resolved_uid uid_descriptor = {"", "", true}
NewResolvedUid == [manufacturer |-> "", device |-> "", active |-> TRUE]

\* new uid_resolution_state(), as GetUniverseUidsOrCreate initialises it
NewUidResolutionState ==
    [resolved_uids |-> [u \in {} |-> NewResolvedUid],
     pending_uids |-> <<>>,
     uid_resolution_running |-> FALSE,
     active |-> TRUE]

\* PutState as it would be with one state object shared by every universe
PutState_Shared(m, universe, st) ==
    [u \in DOMAIN m \cup {universe} |-> st]

\* m_universe_uids with the entry of one universe set (map insert / update)
PutState(m, universe, st) ==
    [u \in DOMAIN m \cup {universe} |-> IF u = universe THEN st ELSE m[u]]

\* GetUniverseUids: the state of a universe, for a universe that has one
\* (a universe outside DOMAIN m is the NULL result)
GetUniverseUids(m, universe) == m[universe]

GetUniverseUidsOrCreate(m, universe) ==
    IF universe \in DOMAIN m THEN m
    ELSE PutState(m, universe, NewUidResolutionState)

(***************************************************************************)
(* CheckForRDMSuccess                                                      *)
(***************************************************************************)
\* the switch with the broadcast case returning true
CheckForRDMSuccessWithError_BroadcastOk(status) ==
    status \in {BROADCAST_REQUEST, VALID_RESPONSE}

CheckForRDMSuccessWithError(status) ==
    CASE status = TRANSPORT_ERROR -> FALSE
      [] status = BROADCAST_REQUEST -> FALSE
      [] status = REQUEST_NACKED -> FALSE
      [] status = MALFORMED_RESPONSE -> FALSE
      [] status = VALID_RESPONSE -> TRUE
      [] OTHER -> FALSE

CheckForRDMSuccess(status) == CheckForRDMSuccessWithError(status)

(***************************************************************************)
(* ResolveNextUID                                                          *)
(*                                                                         *)
(* `fails' is the number of sends the transport rejects synchronously      *)
(* before it accepts one: the while loop pops a record per rejected send   *)
(* and stops at the first accepted one, or when the queue is empty.        *)
(* The result is the new state, the request handed to the transport (a     *)
(* sequence of length 0 or 1) and the sends attempted, in order.           *)
(***************************************************************************)
\* the loop leaving at the first send the transport rejects
ResolveLoop_StopsOnFailure(st, universe, fails, attempts) ==
    IF Len(st.pending_uids) = 0
    THEN [st |-> [st EXCEPT !.uid_resolution_running = FALSE],
          sent |-> <<>>,
          attempts |-> attempts]
    ELSE LET uid_action_pair == Head(st.pending_uids)
             popped == [st EXCEPT !.uid_resolution_running = TRUE,
                                  !.pending_uids = Tail(@)]
             attempt == [universe |-> universe,
                         uid |-> uid_action_pair.uid,
                         action |-> uid_action_pair.action,
                         sent |-> (fails = 0)]
         IN [st |-> popped,
             sent |-> IF fails = 0
                      THEN <<[universe |-> universe,
                              uid |-> uid_action_pair.uid,
                              action |-> uid_action_pair.action]>>
                      ELSE <<>>,
             attempts |-> Append(attempts, attempt)]

RECURSIVE ResolveLoop(_, _, _, _)
ResolveLoop(st, universe, fails, attempts) ==
    IF Len(st.pending_uids) = 0
    THEN [st |-> [st EXCEPT !.uid_resolution_running = FALSE],
          sent |-> <<>>,
          attempts |-> attempts]
    ELSE LET uid_action_pair == Head(st.pending_uids)
             sent_request == (fails = 0)
             popped == [st EXCEPT !.uid_resolution_running = TRUE,
                                  !.pending_uids = Tail(@)]
             attempt == [universe |-> universe,
                         uid |-> uid_action_pair.uid,
                         action |-> uid_action_pair.action,
                         sent |-> sent_request]
         IN IF sent_request
            THEN [st |-> popped,
                  sent |-> <<[universe |-> universe,
                              uid |-> uid_action_pair.uid,
                              action |-> uid_action_pair.action]>>,
                  attempts |-> Append(attempts, attempt)]
            ELSE ResolveLoop(popped, universe, fails - 1,
                             Append(attempts, attempt))

\* ResolveNextUID without the reset of uid_resolution_running on an empty
\* queue
ResolveNextUID_StaysRunning(m, universe, fails) ==
    IF universe \notin DOMAIN m
    THEN [m |-> m, sent |-> <<>>, attempts |-> <<>>]
    ELSE LET r == ResolveLoop(GetUniverseUids(m, universe), universe, fails, <<>>)
             st == [r.st EXCEPT !.uid_resolution_running = TRUE]
         IN [m |-> PutState(m, universe, st),
             sent |-> r.sent,
             attempts |-> r.attempts]

\* ResolveNextUID giving up, with the flag reset, at the first send the
\* transport rejects
ResolveNextUID_GivesUpOnFailure(m, universe, fails) ==
    IF universe \notin DOMAIN m
    THEN [m |-> m, sent |-> <<>>, attempts |-> <<>>]
    ELSE LET r == ResolveLoop_StopsOnFailure(GetUniverseUids(m, universe), universe, fails, <<>>)
             st == [r.st EXCEPT !.uid_resolution_running = (r.sent # <<>>)]
         IN [m |-> PutState(m, universe, st),
             sent |-> r.sent,
             attempts |-> r.attempts]

ResolveNextUID(m, universe, fails) ==
    IF universe \notin DOMAIN m
    THEN [m |-> m, sent |-> <<>>, attempts |-> <<>>]
    ELSE LET r == ResolveLoop(GetUniverseUids(m, universe), universe, fails, <<>>)
         IN [m |-> PutState(m, universe, r.st),
             sent |-> r.sent,
             attempts |-> r.attempts]

(***************************************************************************)
(* HandleUIDList, in the order of its loops                                *)
(***************************************************************************)
\* mark all uids as inactive so we can remove the unused ones at the end
MarkInactive(resolved) ==
    [u \in DOMAIN resolved |-> [resolved[u] EXCEPT !.active = FALSE]]

\* ScheduleUid with the two pushes in the other order
ScheduleUid_DeviceFirst(st, uid) ==
    IF uid \notin DOMAIN st.resolved_uids
    THEN [st EXCEPT
            !.pending_uids = @ \o <<[uid |-> uid, action |-> RESOLVE_DEVICE],
                                    [uid |-> uid, action |-> RESOLVE_MANUFACTURER]>>,
            !.resolved_uids = [u \in DOMAIN @ \cup {uid} |->
                                 IF u = uid THEN NewResolvedUid ELSE @[u]]]
    ELSE [st EXCEPT !.resolved_uids[uid].active = TRUE]

\* ScheduleUid without the insertion of the new descriptor
ScheduleUid_NoEntry(st, uid) ==
    IF uid \notin DOMAIN st.resolved_uids
    THEN [st EXCEPT
            !.pending_uids = @ \o <<[uid |-> uid, action |-> RESOLVE_MANUFACTURER],
                                    [uid |-> uid, action |-> RESOLVE_DEVICE]>>]
    ELSE [st EXCEPT !.resolved_uids[uid].active = TRUE]

\* ScheduleUid storing the empty descriptor for a known UID as well
ScheduleUid_ResetsKnown(st, uid) ==
    IF uid \notin DOMAIN st.resolved_uids
    THEN [st EXCEPT
            !.pending_uids = @ \o <<[uid |-> uid, action |-> RESOLVE_MANUFACTURER],
                                    [uid |-> uid, action |-> RESOLVE_DEVICE]>>,
            !.resolved_uids = [u \in DOMAIN @ \cup {uid} |->
                                 IF u = uid THEN NewResolvedUid ELSE @[u]]]
    ELSE [st EXCEPT !.resolved_uids[uid] = NewResolvedUid]

\* one turn of the loop over the reported UIDs
ScheduleUid(st, uid) ==
    IF uid \notin DOMAIN st.resolved_uids
    THEN [st EXCEPT
            !.pending_uids = @ \o <<[uid |-> uid, action |-> RESOLVE_MANUFACTURER],
                                    [uid |-> uid, action |-> RESOLVE_DEVICE]>>,
            !.resolved_uids = [u \in DOMAIN @ \cup {uid} |->
                                 IF u = uid THEN NewResolvedUid ELSE @[u]]]
    ELSE [st EXCEPT !.resolved_uids[uid].active = TRUE]

\* the labels the JSON reply shows for one UID
SnapshotEntry(st, uid) ==
    IF uid \notin DOMAIN st.resolved_uids
    THEN [uid |-> uid, manufacturer |-> "", device |-> ""]
    ELSE [uid |-> uid,
          manufacturer |-> st.resolved_uids[uid].manufacturer,
          device |-> st.resolved_uids[uid].device]

RECURSIVE ScheduleUids(_, _)
ScheduleUids(st, uidseq) ==
    IF uidseq = <<>> THEN st
    ELSE ScheduleUids(ScheduleUid(st, Head(uidseq)), Tail(uidseq))

\* RemoveOldUids without the erase
RemoveOldUids_KeepAll(resolved) == resolved

\* remove any old uids
RemoveOldUids(resolved) ==
    [u \in {x \in DOMAIN resolved : resolved[x].active} |-> resolved[u]]

\* the state of the universe when the loops are done, before ResolveNextUID
UidListState(st, uids) ==
    LET marked == [st EXCEPT !.resolved_uids = MarkInactive(@)]
        scheduled == ScheduleUids(marked, SortedSeq(uids))
    IN [scheduled EXCEPT !.resolved_uids = RemoveOldUids(@)]

(***************************************************************************)
(* UpdateUIDManufacturerLabel / UpdateUIDDeviceLabel, before they call     *)
(* ResolveNextUID                                                          *)
(***************************************************************************)
\* UpdateLabel writing through operator[], which inserts a missing entry
UpdateLabel_CreatesEntry(st, uid, action, status, label) ==
    LET entry == IF uid \in DOMAIN st.resolved_uids
                 THEN st.resolved_uids[uid]
                 ELSE [manufacturer |-> "", device |-> "", active |-> FALSE]
        written == IF action = RESOLVE_MANUFACTURER
                   THEN [entry EXCEPT !.manufacturer = label]
                   ELSE [entry EXCEPT !.device = label]
    IN IF CheckForRDMSuccess(status)
       THEN [st EXCEPT
               !.resolved_uids = [u \in DOMAIN @ \cup {uid} |->
                                    IF u = uid THEN written ELSE @[u]]]
       ELSE st

\* UpdateLabel writing the label whatever the status of the response
UpdateLabel_IgnoresStatus(st, uid, action, status, label) ==
    IF uid \in DOMAIN st.resolved_uids
    THEN IF action = RESOLVE_MANUFACTURER
         THEN [st EXCEPT !.resolved_uids[uid].manufacturer = label]
         ELSE [st EXCEPT !.resolved_uids[uid].device = label]
    ELSE st

\* UpdateLabel putting the record of a failed request back on the queue
UpdateLabel_Requeues(st, uid, action, status, label) ==
    IF CheckForRDMSuccess(status)
    THEN IF uid \notin DOMAIN st.resolved_uids THEN st
         ELSE IF action = RESOLVE_MANUFACTURER
         THEN [st EXCEPT !.resolved_uids[uid].manufacturer = label]
         ELSE [st EXCEPT !.resolved_uids[uid].device = label]
    ELSE [st EXCEPT
            !.pending_uids = Append(@, [uid |-> uid, action |-> action])]

UpdateLabel(st, uid, action, status, label) ==
    IF CheckForRDMSuccess(status) /\ uid \in DOMAIN st.resolved_uids
    THEN IF action = RESOLVE_MANUFACTURER
         THEN [st EXCEPT !.resolved_uids[uid].manufacturer = label]
         ELSE [st EXCEPT !.resolved_uids[uid].device = label]
    ELSE st

(***************************************************************************)
(* PruneUniverseList                                                       *)
(***************************************************************************)
\* PruneMap without the loop that marks the listed universes active again
PruneMap_EraseAll(m, universes) ==
    LET cleared == [u \in DOMAIN m |-> [m[u] EXCEPT !.active = FALSE]]
    IN [u \in {x \in DOMAIN cleared : cleared[x].active} |-> cleared[u]]

\* PruneMap with an erase loop that stops after the first universe it erases
PruneMap_EraseFirstOnly(m, universes) ==
    LET inactive == DOMAIN m \ universes
        kept == IF inactive = {} THEN DOMAIN m
                ELSE DOMAIN m \ {Min(inactive)}
    IN [u \in kept |-> [m[u] EXCEPT !.active = TRUE]]

PruneMap(m, universes) ==
    LET cleared == [u \in DOMAIN m |-> [m[u] EXCEPT !.active = FALSE]]
        marked == [u \in DOMAIN m |->
                     IF u \in universes THEN [cleared[u] EXCEPT !.active = TRUE]
                     ELSE cleared[u]]
    IN [u \in {x \in DOMAIN marked : marked[x].active} |-> marked[u]]

\* what a callback is given besides the status: a string, a list of
\* strings, a number or a device descriptor (the two fields of it that the
\* device info section combines with dev_info)
NoDescriptor == [device_model |-> 0, software_version |-> 0]

NoData ==
    [value |-> "", list |-> <<>>, number |-> 0, device |-> NoDescriptor]

(***************************************************************************)
(* The last event: the handler that ran last, its arguments, the records   *)
(* it pushed on pending_uids, the sends it attempted (in order), the       *)
(* labels its reply shows, the universes it removed from the map, and      *)
(* whether it repeats the call before it (same handler, same arguments);   *)
(* for the section handlers the section id, the hint and the field value   *)
(* of the request, the status the callback got, the value the callback got *)
(* with it (`data') and the m_rdm_api calls made, in order                 *)
(***************************************************************************)
NoEvent ==
    [op |-> "none", universe |-> 0, universes |-> {}, uids |-> {},
     uid |-> 0, action |-> "",
     pushed |-> <<>>, attempts |-> <<>>, snapshot |-> <<>>,
     removed |-> {}, again |-> FALSE,
     section |-> "", hint |-> "", value |-> "", status |-> "",
     data |-> NoData, calls |-> <<>>]

(***************************************************************************)
(* The section request being served.  `callback' names the handler that    *)
(* m_rdm_api will run for it ("" when no request is in flight), `hint' is  *)
(* the hint the chain carries, `pid_list' the pid list that the section    *)
(* discovery carries, `definition' tells whether the sensor chain carries *)
(* a non-NULL definition, `bound' holds the other values bound into the    *)
(* callback (the two strings of dev_info, the language list, the boot      *)
(* software label), `replies' are the replies sent on the HttpResponse,    *)
(* `crashed' is set when the process has died.                             *)
(***************************************************************************)
NoBound ==
    [software_version |-> "", device_model |-> "", languages |-> <<>>,
     label |-> ""]

NoChain ==
    [callback |-> "", hint |-> "", definition |-> FALSE,
     universe |-> 0, uid |-> 0, pid_list |-> <<>>, bound |-> NoBound,
     replies |-> <<>>, crashed |-> FALSE]

(***************************************************************************)
(* The device descriptor of a GetDeviceInfo response, as far as the        *)
(* section list depends on it.                                             *)
(***************************************************************************)
NoDevice == [dmx_footprint |-> 0, sensor_count |-> 0]

(***************************************************************************)
(* sort() leaves the order of sections that compare equal to the build:    *)
(* `sort_ties' is "kept" for a build that keeps them in the order they     *)
(* were added and "reversed" for one that reverses them.  The other fields *)
(* record the last section list served: the pid list, the status and the   *)
(* device descriptor it was computed from, and the list.                   *)
(***************************************************************************)
SortTies == {"kept", "reversed"}

NoDiscovery ==
    [sort_ties |-> "kept", done |-> FALSE, pid_list |-> <<>>,
     status |-> "", device |-> NoDevice, sections |-> <<>>]

(***************************************************************************)
(* Initial state: the constructor leaves m_universe_uids empty             *)
(***************************************************************************)
Init ==
    /\ m_universe_uids = [u \in {} |-> NewUidResolutionState]
    /\ outstanding = EmptyBag
    /\ chain = NoChain
    /\ discovery = NoDiscovery
    /\ ev = NoEvent

\* the initial state of any build
InitAnyBuild ==
    /\ m_universe_uids = [u \in {} |-> NewUidResolutionState]
    /\ outstanding = EmptyBag
    /\ chain = NoChain
    /\ discovery \in {[NoDiscovery EXCEPT !.sort_ties = t] : t \in SortTies}
    /\ ev = NoEvent

(***************************************************************************)
(* HandleUIDList: the reply to the FetchUIDList that JsonUIDs sent for     *)
(* `universe'.  With an error it serves the error and returns.             *)
(***************************************************************************)
\* the error branch placed after the lookup that creates the state
HandleUIDListError_CreatesState(universe) ==
    /\ m_universe_uids' = GetUniverseUidsOrCreate(m_universe_uids, universe)
    /\ ev' = [NoEvent EXCEPT !.op = "HandleUIDListError",
                             !.universe = universe]
    /\ UNCHANGED <<outstanding, chain, discovery>>

HandleUIDListError(universe) ==
    /\ ev' = [NoEvent EXCEPT !.op = "HandleUIDListError",
                             !.universe = universe]
    /\ UNCHANGED <<m_universe_uids, outstanding, chain, discovery>>

HandleUIDList(universe, uids, fails) ==
    LET created == GetUniverseUidsOrCreate(m_universe_uids, universe)
        uid_state == GetUniverseUids(created, universe)
        listed == UidListState(uid_state, uids)
        after == PutState(created, universe, listed)
        snapshot == [i \in 1..Cardinality(uids) |->
                       SnapshotEntry(uid_state, SortedSeq(uids)[i])]
        pushed == SubSeq(listed.pending_uids,
                         Len(uid_state.pending_uids) + 1,
                         Len(listed.pending_uids))
        r == IF ~listed.uid_resolution_running
             THEN ResolveNextUID(after, universe, fails)
             ELSE [m |-> after, sent |-> <<>>, attempts |-> <<>>]
    IN /\ fails <= (IF listed.uid_resolution_running THEN 0
                    ELSE Len(listed.pending_uids))
       /\ Len(r.m[universe].pending_uids) <= MaxPending
       /\ BagCardinality(outstanding) + Len(r.sent) <= MaxOutstanding
       /\ m_universe_uids' = r.m
       /\ outstanding' = outstanding (+) SetToBag(Range(r.sent))
       /\ ev' = [NoEvent EXCEPT
                   !.op = "HandleUIDList", !.universe = universe,
                   !.uids = uids, !.pushed = pushed,
                   !.attempts = r.attempts, !.snapshot = snapshot]
       /\ UNCHANGED <<chain, discovery>>

(***************************************************************************)
(* UpdateUIDManufacturerLabel / UpdateUIDDeviceLabel: the transport runs   *)
(* the callback of the outstanding label request `req'                     *)
(***************************************************************************)
\* the handlers looking the universe up with GetUniverseUidsOrCreate
UpdateUIDLabel_Recreates(req, status, label, fails) ==
    LET created == GetUniverseUidsOrCreate(m_universe_uids, req.universe)
        uid_state == GetUniverseUids(created, req.universe)
        updated == PutState(created, req.universe,
                            UpdateLabel(uid_state, req.uid, req.action,
                                        status, label))
        r == ResolveNextUID(updated, req.universe, fails)
    IN /\ req \in BagToSet(outstanding)
       /\ fails <= Len(uid_state.pending_uids)
       /\ m_universe_uids' = r.m
       /\ outstanding' = (outstanding (-) SetToBag({req}))
                            (+) SetToBag(Range(r.sent))
       /\ ev' = [NoEvent EXCEPT
                   !.op = "UpdateUIDLabel", !.universe = req.universe,
                   !.uid = req.uid, !.action = req.action,
                   !.status = status, !.value = label,
                   !.attempts = r.attempts]
       /\ UNCHANGED <<chain, discovery>>

UpdateUIDLabel(req, status, label, fails) ==
    LET done == outstanding (-) SetToBag({req})
        event == [NoEvent EXCEPT
                    !.op = "UpdateUIDLabel", !.universe = req.universe,
                    !.uid = req.uid, !.action = req.action,
                    !.status = status, !.value = label]
    IN /\ req \in BagToSet(outstanding)
       /\ UNCHANGED <<chain, discovery>>
       /\ IF req.universe \notin DOMAIN m_universe_uids
          THEN /\ fails = 0
               /\ outstanding' = done
               /\ ev' = event
               /\ UNCHANGED m_universe_uids
          ELSE LET uid_state == GetUniverseUids(m_universe_uids, req.universe)
                   updated == PutState(m_universe_uids, req.universe,
                                       UpdateLabel(uid_state, req.uid,
                                                   req.action, status, label))
                   r == ResolveNextUID(updated, req.universe, fails)
               IN /\ fails <= Len(uid_state.pending_uids)
                  /\ m_universe_uids' = r.m
                  /\ outstanding' = done (+) SetToBag(Range(r.sent))
                  /\ ev' = [event EXCEPT !.attempts = r.attempts]

(***************************************************************************)
(* PruneUniverseList: a new list of active universes has arrived           *)
(***************************************************************************)
PruneUniverseList(universes) ==
    /\ m_universe_uids' = PruneMap(m_universe_uids, universes)
    /\ ev' = [NoEvent EXCEPT
                !.op = "PruneUniverseList", !.universes = universes,
                !.removed = DOMAIN m_universe_uids \ universes,
                !.again = (ev.op = "PruneUniverseList"
                           /\ ev.universes = universes)]
    /\ UNCHANGED <<outstanding, chain, discovery>>

(***************************************************************************)
(* Two specifications of the resolution engine.  Spec follows universe 1   *)
(* with every UID of UIDs; SpecUniverses follows every universe of         *)
(* Universes, each with the one UID 1.                                     *)
(***************************************************************************)
LabelRequests(US, IDS) ==
    [universe : US, uid : IDS, action : uid_resolve_action]

NextIn(US, IDS) ==
    \/ \E universe \in US :
          HandleUIDListError(universe)
    \/ \E universe \in US, uids \in SUBSET IDS, fails \in 0..(MaxPending + 1) :
          HandleUIDList(universe, uids, fails)
    \/ \E req \in LabelRequests(US, IDS), status \in ResponseTypes,
          label \in Labels, fails \in 0..MaxPending :
          UpdateUIDLabel(req, status, label, fails)
    \/ \E universes \in SUBSET US :
          PruneUniverseList(universes)

Next == NextIn({1}, UIDs)

Spec == Init /\ [][Next]_vars

NextUniverses == NextIn(Universes, {1})

SpecUniverses == Init /\ [][NextUniverses]_vars

(***************************************************************************)
(* Section requests.  JsonSectionInfo and JsonSaveSectionInfo pick the     *)
(* chain of a section by its id; a chain starts with one m_rdm_api call    *)
(* whose callback is the next handler of the chain.                        *)
(***************************************************************************)
BACKEND_DISCONNECTED_ERROR == "Failed to send request, client isn't connected"

BOOT_SOFTWARE_SECTION      == "boot_software"
DEVICE_HOURS_SECTION       == "device_hours"
DEVICE_INFO_SECTION        == "device_info"
DEVICE_LABEL_SECTION       == "device_label"
DMX_ADDRESS_SECTION        == "dmx_address"
IDENTIFY_SECTION           == "identify"
LAMP_HOURS_SECTION         == "lamp_hours"
LANGUAGE_SECTION           == "language"
MANUFACTURER_LABEL_SECTION == "manufacturer_label"
PRODUCT_DETAIL_SECTION     == "product_detail"
SENSOR_SECTION             == "sensor"

\* the section ids a request may carry: the eleven above, none, an unknown one
SectionIds ==
    {BOOT_SOFTWARE_SECTION, DEVICE_HOURS_SECTION, DEVICE_INFO_SECTION,
     DEVICE_LABEL_SECTION, DMX_ADDRESS_SECTION, IDENTIFY_SECTION,
     LAMP_HOURS_SECTION, LANGUAGE_SECTION, MANUFACTURER_LABEL_SECTION,
     PRODUCT_DETAIL_SECTION, SENSOR_SECTION, "", "personality"}

\* the values of the id, uid and hint parameters and of a section's field
UniverseIdStrings == {"", "1"}
UidStrings        == {"", "7a70:00000001"}
Hints             == {"", "m", "0"}
FieldValues       == {"", "1", "600", "70000"}

\* the number a string of decimal digits denotes, -1 for any other string
DecimalValue(str) ==
    CASE str = "0"     -> 0
      [] str = "1"     -> 1
      [] str = "600"   -> 600
      [] str = "70000" -> 70000
      [] OTHER         -> -1

\* below 2^32, written so that no number above 2^31 is computed
StringToUInt(str) ==
    DecimalValue(str) >= 0 /\ DecimalValue(str) \div 2^16 < 2^16

StringToUInt16(str) == DecimalValue(str) \in 0..(2^16 - 1)
StringToUInt8(str)  == DecimalValue(str) \in 0..(2^8 - 1)

\* UID::FromString: the UID a string denotes, 0 (NULL) if it denotes none
UIDFromString(str) == IF str = "7a70:00000001" THEN 1 ELSE 0

CheckForInvalidId(uni_id) == StringToUInt(uni_id)

CheckForInvalidUid(uid_string) == UIDFromString(uid_string) # 0

(***************************************************************************)
(* What the start of a chain did: `found' tells whether the section id     *)
(* named a chain, `error' is the string the chain returned, `calls' are    *)
(* the m_rdm_api calls it made and `callback' the handler registered with  *)
(* the call.  A call that m_rdm_api refuses (send_ok = FALSE) sets the     *)
(* error and runs no callback.                                             *)
(***************************************************************************)
ApiCall(method, arg, callback, send_ok) ==
    [found |-> TRUE,
     error |-> IF send_ok THEN "" ELSE "send failed",
     calls |-> <<[method |-> method, arg |-> arg]>>,
     callback |-> IF send_ok THEN callback ELSE ""]

Invalid(error) ==
    [found |-> TRUE, error |-> error, calls |-> <<>>, callback |-> ""]

UnknownSection ==
    [found |-> FALSE, error |-> "", calls |-> <<>>, callback |-> ""]

GetDeviceInfo(send_ok) ==
    ApiCall("GetSoftwareVersionLabel", "", "GetSoftwareVersionHandler",
            send_ok)

GetProductIds(send_ok) ==
    ApiCall("GetProductDetailIdList", "", "GetProductIdsHandler", send_ok)

GetManufacturerLabel(send_ok) ==
    ApiCall("GetManufacturerLabel", "", "GetManufacturerLabelHandler",
            send_ok)

GetDeviceLabel(send_ok) ==
    ApiCall("GetDeviceLabel", "", "GetDeviceLabelHandler", send_ok)

SetDeviceLabel(label, send_ok) ==
    ApiCall("SetDeviceLabel", label, "SetHandler", send_ok)

GetLanguage(send_ok) ==
    ApiCall("GetLanguageCapabilities", "", "GetSupportedLanguagesHandler",
            send_ok)

SetLanguage(label, send_ok) ==
    ApiCall("SetLanguage", label, "SetHandler", send_ok)

GetBootSoftware(send_ok) ==
    ApiCall("GetBootSoftwareVersionLabel", "", "GetBootSoftwareLabelHandler",
            send_ok)

GetStartAddress(send_ok) ==
    ApiCall("GetDMXAddress", "", "GetStartAddressHandler", send_ok)

SetStartAddress(dmx_address, send_ok) ==
    IF ~StringToUInt16(dmx_address)
      THEN Invalid("Invalid start address")
      ELSE ApiCall("SetDMXAddress", dmx_address, "SetHandler", send_ok)

GetSensor(hint, send_ok) ==
    IF ~StringToUInt8(hint)
      THEN Invalid("Invalid hint (sensor #)")
      ELSE ApiCall("GetSensorDefinition", hint, "SensorDefinitionHandler",
                   send_ok)

RecordSensor(hint, send_ok) ==
    IF ~StringToUInt8(hint)
      THEN Invalid("Invalid hint (sensor #)")
      ELSE ApiCall("RecordSensors", hint, "SetHandler", send_ok)

GetDeviceHours(send_ok) ==
    ApiCall("GetDeviceHours", "", "DeviceHoursHandler", send_ok)

SetDeviceHours(device_hours, send_ok) ==
    IF ~StringToUInt(device_hours)
      THEN Invalid("Invalid device hours")
      ELSE ApiCall("SetDeviceHours", device_hours, "SetHandler", send_ok)

GetLampHours(send_ok) ==
    ApiCall("GetLampHours", "", "LampHoursHandler", send_ok)

SetLampHours(lamp_hours_str, send_ok) ==
    IF ~StringToUInt(lamp_hours_str)
      THEN Invalid("Invalid device hours")
      ELSE ApiCall("SetLampHours", lamp_hours_str, "SetHandler", send_ok)

GetIdentifyMode(send_ok) ==
    ApiCall("GetIdentifyMode", "", "GetIdentifyModeHandler", send_ok)

SetIdentifyMode(mode, send_ok) ==
    ApiCall("IdentifyDevice", IF mode = "1" THEN "true" ELSE "false",
            "SetHandler", send_ok)

\* the if / else-if ladder of JsonSectionInfo
SectionInfoChain(section_id, hint, send_ok) ==
    CASE section_id = DEVICE_INFO_SECTION        -> GetDeviceInfo(send_ok)
      [] section_id = PRODUCT_DETAIL_SECTION     -> GetProductIds(send_ok)
      [] section_id = MANUFACTURER_LABEL_SECTION ->
                                              GetManufacturerLabel(send_ok)
      [] section_id = DEVICE_LABEL_SECTION       -> GetDeviceLabel(send_ok)
      [] section_id = LANGUAGE_SECTION           -> GetLanguage(send_ok)
      [] section_id = BOOT_SOFTWARE_SECTION      -> GetBootSoftware(send_ok)
      [] section_id = DMX_ADDRESS_SECTION        -> GetStartAddress(send_ok)
      [] section_id = SENSOR_SECTION             -> GetSensor(hint, send_ok)
      [] section_id = DEVICE_HOURS_SECTION       -> GetDeviceHours(send_ok)
      [] section_id = LAMP_HOURS_SECTION         -> GetLampHours(send_ok)
      [] section_id = IDENTIFY_SECTION           -> GetIdentifyMode(send_ok)
      [] OTHER                                   -> UnknownSection

\* a save ladder that hands every id it does not know to the read ladder
SaveSectionInfoChain_ReadFallback(section_id, hint, value, send_ok) ==
    CASE section_id = DEVICE_LABEL_SECTION -> SetDeviceLabel(value, send_ok)
      [] section_id = LANGUAGE_SECTION     -> SetLanguage(value, send_ok)
      [] section_id = DMX_ADDRESS_SECTION  -> SetStartAddress(value, send_ok)
      [] section_id = SENSOR_SECTION       -> RecordSensor(hint, send_ok)
      [] section_id = DEVICE_HOURS_SECTION -> SetDeviceHours(value, send_ok)
      [] section_id = LAMP_HOURS_SECTION   -> SetLampHours(value, send_ok)
      [] section_id = IDENTIFY_SECTION     -> SetIdentifyMode(value, send_ok)
      [] OTHER -> SectionInfoChain(section_id, hint, send_ok)

\* the if / else-if ladder of JsonSaveSectionInfo; `value' is the value of
\* the field the section's setter reads (label, language, address, hours,
\* identify)
SaveSectionInfoChain(section_id, hint, value, send_ok) ==
    CASE section_id = DEVICE_LABEL_SECTION -> SetDeviceLabel(value, send_ok)
      [] section_id = LANGUAGE_SECTION     -> SetLanguage(value, send_ok)
      [] section_id = DMX_ADDRESS_SECTION  -> SetStartAddress(value, send_ok)
      [] section_id = SENSOR_SECTION       -> RecordSensor(hint, send_ok)
      [] section_id = DEVICE_HOURS_SECTION -> SetDeviceHours(value, send_ok)
      [] section_id = LAMP_HOURS_SECTION   -> SetLampHours(value, send_ok)
      [] section_id = IDENTIFY_SECTION     -> SetIdentifyMode(value, send_ok)
      [] OTHER                             -> UnknownSection

(***************************************************************************)
(* Replies.  The text of a reply is the sequence of the strings the code   *)
(* concatenates.                                                           *)
(***************************************************************************)
ServeNotFound == [kind |-> "NotFound", text |-> <<>>]

ServeError(error) ==
    [kind |-> "ServeError", text |-> <<BACKEND_DISCONNECTED_ERROR, error>>]

RespondWithError(error) == [kind |-> "Error", text |-> <<error>>]

\* RespondWithSection for a section whose items are not modelled
RespondWithSection(title) == [kind |-> "Section", text |-> <<title>>]

\* StringItem: its value is the sequence of the strings written to the stream
StringItem(description, value) ==
    [description |-> description, value |-> value, options |-> <<>>,
     offsets |-> <<>>]

\* SelectItem after its AddItem calls (`options', in call order) and its
\* SetSelectedOffset calls (`offsets', in call order)
SelectItem(description, options, offsets) ==
    [description |-> description, value |-> <<>>, options |-> options,
     offsets |-> offsets]

\* the options a SelectItem was told to select
SelectedOptions(item) == {item.options[o + 1] : o \in Range(item.offsets)}

\* a number as the stream operator << writes it
DecimalString(n) ==
    CASE n = 0 -> "0"
      [] n = 1 -> "1"
      [] n = 2 -> "2"
      [] n = 3 -> "3"

\* RespondWithSection for a section whose items are modelled
RespondWithItems(title, items) ==
    [kind |-> "Section", text |-> <<title>>, items |-> items]

\* the string CheckForRDMSuccessWithError leaves in *error (the status-
\* dependent tail of the string is left out)
RDMErrorString(status) ==
    CASE status = TRANSPORT_ERROR -> "RDM command error: "
      [] status = BROADCAST_REQUEST -> ""
      [] status = REQUEST_NACKED -> "Request was NACKED with code: "
      [] status = MALFORMED_RESPONSE -> "Malformed RDM response "
      [] status = VALID_RESPONSE -> ""
      [] OTHER -> "Unknown response status "

\* CheckForRDMError: TRUE when it has replied with the error
CheckForRDMError(status) == ~CheckForRDMSuccessWithError(status)

\* dev_info.hint.find('m') != string::npos, on the strings of Hints
HintAsksForModel(hint) == hint = "m"

\* no section request is in flight
ChainIdle == chain.callback = "" /\ ~chain.crashed

\* a handler of the chain is the callback m_rdm_api is about to run
ChainAwaits(callback) == chain.callback = callback /\ ~chain.crashed

\* the chain after a handler has sent `reply' and registered no callback
ChainReplied(reply) ==
    [chain EXCEPT !.callback = "", !.replies = Append(@, reply)]

\* the chain after a handler has made the call whose callback is `callback'
ChainCalled(callback, send_ok) ==
    IF send_ok THEN [chain EXCEPT !.callback = callback]
    ELSE ChainReplied(ServeError("send failed"))

HandlerEvent(op, status, calls) ==
    [NoEvent EXCEPT !.op = op, !.status = status, !.calls = calls]

JsonSectionInfo(uni_id, uid_string, section_id, hint, send_ok) ==
    LET valid == CheckForInvalidId(uni_id) /\ CheckForInvalidUid(uid_string)
        r == IF valid THEN SectionInfoChain(section_id, hint, send_ok)
             ELSE UnknownSection
        replies == IF ~r.found THEN <<ServeNotFound>>
                   ELSE IF r.error # "" THEN <<ServeError(r.error)>>
                   ELSE <<>>
    IN /\ ChainIdle
       /\ chain' = [NoChain EXCEPT
                      !.callback = r.callback, !.hint = hint,
                      !.universe = IF valid THEN DecimalValue(uni_id) ELSE 0,
                      !.uid = IF valid THEN UIDFromString(uid_string) ELSE 0,
                      !.replies = replies]
       /\ ev' = [NoEvent EXCEPT
                   !.op = "JsonSectionInfo", !.section = section_id,
                   !.hint = hint,
                   !.universe = IF CheckForInvalidId(uni_id)
                                THEN DecimalValue(uni_id) ELSE 0,
                   !.uid = UIDFromString(uid_string),
                   !.calls = r.calls]
       /\ UNCHANGED <<m_universe_uids, outstanding, discovery>>

JsonSaveSectionInfo(uni_id, uid_string, section_id, hint, value, send_ok) ==
    LET valid == CheckForInvalidId(uni_id) /\ CheckForInvalidUid(uid_string)
        r == IF valid
             THEN SaveSectionInfoChain(section_id, hint, value, send_ok)
             ELSE UnknownSection
        replies == IF ~r.found THEN <<ServeNotFound>>
                   ELSE IF r.error # "" THEN <<RespondWithError(r.error)>>
                   ELSE <<>>
    IN /\ ChainIdle
       /\ chain' = [NoChain EXCEPT
                      !.callback = r.callback, !.hint = hint,
                      !.universe = IF valid THEN DecimalValue(uni_id) ELSE 0,
                      !.uid = IF valid THEN UIDFromString(uid_string) ELSE 0,
                      !.replies = replies]
       /\ ev' = [NoEvent EXCEPT
                   !.op = "JsonSaveSectionInfo", !.section = section_id,
                   !.hint = hint, !.value = value,
                   !.universe = IF CheckForInvalidId(uni_id)
                                THEN DecimalValue(uni_id) ELSE 0,
                   !.uid = UIDFromString(uid_string),
                   !.calls = r.calls]
       /\ UNCHANGED <<m_universe_uids, outstanding, discovery>>

(***************************************************************************)
(* The handlers of the chains                                              *)
(***************************************************************************)
\* a handler that gives up with an error after a transport error
CallNext_Aborts(handler, status, data, bound, method, arg, callback, send_ok) ==
    /\ ChainAwaits(handler)
    /\ IF status = TRANSPORT_ERROR
       THEN /\ chain' = ChainReplied(RespondWithError(RDMErrorString(status)))
            /\ ev' = [HandlerEvent(handler, status, <<>>) EXCEPT
                        !.data = data]
       ELSE /\ chain' = [ChainCalled(callback, send_ok) EXCEPT
                           !.bound = bound]
            /\ ev' = [HandlerEvent(handler, status,
                                   <<[method |-> method, arg |-> arg]>>)
                      EXCEPT !.data = data]
    /\ UNCHANGED <<m_universe_uids, outstanding, discovery>>

\* a handler that was given `data' with the status and calls `method' next,
\* whatever the status; `bound' are the values it binds into the callback
CallNext(handler, status, data, bound, method, arg, callback, send_ok) ==
    /\ ChainAwaits(handler)
    /\ chain' = [ChainCalled(callback, send_ok) EXCEPT !.bound = bound]
    /\ ev' = [HandlerEvent(handler, status,
                           <<[method |-> method, arg |-> arg]>>)
              EXCEPT !.data = data]
    /\ UNCHANGED <<m_universe_uids, outstanding, discovery>>

\* a handler that replies with the error of CheckForRDMError or else with
\* its section
ReplyChecked(handler, status, data, section) ==
    /\ ChainAwaits(handler)
    /\ chain' = ChainReplied(IF CheckForRDMError(status)
                             THEN RespondWithError(RDMErrorString(status))
                             ELSE section)
    /\ ev' = [HandlerEvent(handler, status, <<>>) EXCEPT !.data = data]

\* a handler that replies with its section whatever the status
ReplyAlways(handler, status, data, section) ==
    /\ ChainAwaits(handler)
    /\ chain' = ChainReplied(section)
    /\ ev' = [HandlerEvent(handler, status, <<>>) EXCEPT !.data = data]
    /\ UNCHANGED <<m_universe_uids, outstanding, discovery>>

\* "update the map as well": the label handlers write the label into the
\* resolved entry of the UID, if the universe is tracked and has one
\* the update written with operator[], which inserts what is missing
UpdateResolvedLabel_CreatesEntry(m, universe, uid, field, label) ==
    LET created == GetUniverseUidsOrCreate(m, universe)
        st == GetUniverseUids(created, universe)
        entry == IF uid \in DOMAIN st.resolved_uids
                 THEN st.resolved_uids[uid]
                 ELSE [manufacturer |-> "", device |-> "", active |-> FALSE]
        written == IF field = RESOLVE_MANUFACTURER
                   THEN [entry EXCEPT !.manufacturer = label]
                   ELSE [entry EXCEPT !.device = label]
    IN PutState(created, universe,
                [st EXCEPT !.resolved_uids =
                    [u \in DOMAIN @ \cup {uid} |->
                       IF u = uid THEN written ELSE @[u]]])

UpdateResolvedLabel(m, universe, uid, field, label) ==
    IF universe \in DOMAIN m
       /\ uid \in DOMAIN GetUniverseUids(m, universe).resolved_uids
    THEN IF field = RESOLVE_MANUFACTURER
         THEN [m EXCEPT ![universe].resolved_uids[uid].manufacturer = label]
         ELSE [m EXCEPT ![universe].resolved_uids[uid].device = label]
    ELSE m

\* a software version handler that never asks for the model description
GetSoftwareVersionHandler_SkipsModel(status, software_version, send_ok) ==
    CallNext("GetSoftwareVersionHandler", status,
             [NoData EXCEPT !.value = software_version],
             IF CheckForRDMSuccess(status)
             THEN [chain.bound EXCEPT !.software_version = software_version]
             ELSE chain.bound,
             "GetDeviceInfo", "", "GetDeviceInfoHandler", send_ok)

\* dev_info keeps the software version of a valid response only
GetSoftwareVersionHandler(status, software_version, send_ok) ==
    LET dev_info == IF CheckForRDMSuccess(status)
                    THEN [chain.bound EXCEPT
                            !.software_version = software_version]
                    ELSE chain.bound
    IN IF HintAsksForModel(chain.hint)
       THEN CallNext("GetSoftwareVersionHandler", status,
                     [NoData EXCEPT !.value = software_version], dev_info,
                     "GetDeviceModelDescription", "",
                     "GetDeviceModelHandler", send_ok)
       ELSE CallNext("GetSoftwareVersionHandler", status,
                     [NoData EXCEPT !.value = software_version], dev_info,
                     "GetDeviceInfo", "", "GetDeviceInfoHandler", send_ok)

\* dev_info keeps the device model of a valid response only
GetDeviceModelHandler(status, device_model, send_ok) ==
    LET dev_info == IF CheckForRDMSuccess(status)
                    THEN [chain.bound EXCEPT !.device_model = device_model]
                    ELSE chain.bound
    IN CallNext("GetDeviceModelHandler", status,
                [NoData EXCEPT !.value = device_model],
                dev_info, "GetDeviceInfo", "", "GetDeviceInfoHandler",
                send_ok)

\* an item string that always shows both parts
DeviceInfoString_AlwaysBoth(collected, number) ==
    <<collected, " (", DecimalString(number), ")">>

\* the string of the "Device Model" and of the "Software Version" item:
\* what the chain has collected, then the number of the descriptor
DeviceInfoString(collected, number) ==
    IF collected = "" THEN <<DecimalString(number)>>
    ELSE <<collected, " (", DecimalString(number), ")">>

\* of the eight items of the section, the two that depend on dev_info
DeviceInfoItems(dev_info, device) ==
    <<StringItem("Device Model",
                 DeviceInfoString(dev_info.device_model,
                                  device.device_model)),
      StringItem("Software Version",
                 DeviceInfoString(dev_info.software_version,
                                  device.software_version))>>

GetDeviceInfoHandler(status, device) ==
    /\ ReplyChecked("GetDeviceInfoHandler", status,
                    [NoData EXCEPT !.device = device],
                    RespondWithItems("Device Info",
                                     DeviceInfoItems(chain.bound, device)))
    /\ UNCHANGED <<m_universe_uids, outstanding, discovery>>

GetProductIdsHandler(status) ==
    /\ ReplyChecked("GetProductIdsHandler", status,
                    NoData, RespondWithSection("Product Detail IDs"))
    /\ UNCHANGED <<m_universe_uids, outstanding, discovery>>

GetManufacturerLabelHandler(status, label) ==
    /\ ReplyChecked("GetManufacturerLabelHandler", status,
                    [NoData EXCEPT !.value = label],
                    RespondWithSection("Manufacturer Label"))
    /\ m_universe_uids' =
          IF CheckForRDMError(status) THEN m_universe_uids
          ELSE UpdateResolvedLabel(m_universe_uids, chain.universe,
                                   chain.uid, RESOLVE_MANUFACTURER, label)
    /\ UNCHANGED <<outstanding, discovery>>

GetDeviceLabelHandler(status, label) ==
    /\ ReplyChecked("GetDeviceLabelHandler", status,
                    [NoData EXCEPT !.value = label],
                    RespondWithSection("Device Label"))
    /\ m_universe_uids' =
          IF CheckForRDMError(status) THEN m_universe_uids
          ELSE UpdateResolvedLabel(m_universe_uids, chain.universe,
                                   chain.uid, RESOLVE_DEVICE, label)
    /\ UNCHANGED <<outstanding, discovery>>

\* the list is bound into the callback whatever the status
GetSupportedLanguagesHandler(status, languages, send_ok) ==
    CallNext("GetSupportedLanguagesHandler", status,
             [NoData EXCEPT !.list = languages],
             [chain.bound EXCEPT !.languages = languages],
             "GetLanguage", "", "GetLanguageHandler", send_ok)

\* a loop that selects the active language whatever the status
SelectedOffsets_IgnoresStatus(languages, ok, language) ==
    SelectSeq([i \in 1..Len(languages) |-> i - 1],
              LAMBDA o : languages[o + 1] = language)

\* the offsets the loop passes to SetSelectedOffset, in call order
SelectedOffsets(languages, ok, language) ==
    LET Hit(i) == ok /\ languages[i] = language
    IN SelectSeq([i \in 1..Len(languages) |-> i - 1], LAMBDA o : Hit(o + 1))

\* the "Language" item GetLanguageHandler builds
LanguageItem(languages, ok, language) ==
    IF ok /\ Len(languages) = 0
    THEN SelectItem("Language", <<language>>, <<0>>)
    ELSE SelectItem("Language", languages,
                    SelectedOffsets(languages, ok, language))

GetLanguageHandler(status, language) ==
    ReplyAlways("GetLanguageHandler", status,
                [NoData EXCEPT !.value = language],
                RespondWithItems("Language",
                                 <<LanguageItem(chain.bound.languages,
                                                CheckForRDMSuccess(status),
                                                language)>>))

\* the label is bound into the callback whatever the status
GetBootSoftwareLabelHandler(status, label, send_ok) ==
    CallNext("GetBootSoftwareLabelHandler", status,
             [NoData EXCEPT !.value = label],
             [chain.bound EXCEPT !.label = label],
             "GetBootSoftwareVersion", "", "GetBootSoftwareVersionHandler",
             send_ok)

\* a string that shows the version whatever the status
BootSoftwareString_IgnoresStatus(label, ok, version) ==
    IF label # "" THEN <<label, " (", DecimalString(version), ")">>
    ELSE <<label, DecimalString(version)>>

\* the string of the "Boot Software" item
BootSoftwareString(label, ok, version) ==
    <<label>> \o (IF ~ok THEN <<>>
                  ELSE IF label # "" THEN <<" (", DecimalString(version), ")">>
                  ELSE <<DecimalString(version)>>)

GetBootSoftwareVersionHandler(status, version) ==
    ReplyAlways("GetBootSoftwareVersionHandler", status,
                [NoData EXCEPT !.number = version],
                RespondWithItems("Boot Software",
                                 <<StringItem("Boot Software",
                                              BootSoftwareString(
                                                  chain.bound.label,
                                                  CheckForRDMSuccess(status),
                                                  version))>>))

GetStartAddressHandler(status) ==
    /\ ReplyChecked("GetStartAddressHandler", status,
                    NoData, RespondWithSection("DMX Start Address"))
    /\ UNCHANGED <<m_universe_uids, outstanding, discovery>>

\* definition_arg is a new SensorDescriptor only after a valid response
SensorDefinitionHandler(status, send_ok) ==
    /\ ChainAwaits("SensorDefinitionHandler")
    /\ chain' = [ChainCalled("SensorValueHandler", send_ok) EXCEPT
                   !.definition = CheckForRDMSuccess(status)]
    /\ ev' = HandlerEvent("SensorDefinitionHandler", status,
                          <<[method |-> "GetSensorValue",
                             arg |-> chain.hint]>>)
    /\ UNCHANGED <<m_universe_uids, outstanding, discovery>>

\* with a NULL definition the handler reads definition->prefix and
\* definition->unit: the process dies or the reply carries whatever was read
SensorValueHandler(status, survives) ==
    /\ ChainAwaits("SensorValueHandler")
    /\ chain' =
          IF CheckForRDMError(status)
            THEN ChainReplied(RespondWithError(RDMErrorString(status)))
          ELSE IF chain.definition
            THEN ChainReplied(RespondWithSection("Sensor"))
          ELSE IF survives
            THEN ChainReplied(RespondWithSection("Sensor (undefined)"))
          ELSE [chain EXCEPT !.callback = "", !.crashed = TRUE]
    /\ ev' = HandlerEvent("SensorValueHandler", status, <<>>)
    /\ UNCHANGED <<m_universe_uids, outstanding, discovery>>

DeviceHoursHandler(status) ==
    /\ ReplyChecked("DeviceHoursHandler", status,
                    NoData, RespondWithSection("Device Hours"))
    /\ UNCHANGED <<m_universe_uids, outstanding, discovery>>

LampHoursHandler(status) ==
    /\ ReplyChecked("LampHoursHandler", status,
                    NoData, RespondWithSection("Lamp Hours"))
    /\ UNCHANGED <<m_universe_uids, outstanding, discovery>>

GetIdentifyModeHandler(status) ==
    /\ ReplyChecked("GetIdentifyModeHandler", status,
                    NoData, RespondWithSection("Identify Mode"))
    /\ UNCHANGED <<m_universe_uids, outstanding, discovery>>

\* replies with the error string even when it is empty
SetHandler(status) ==
    /\ ChainAwaits("SetHandler")
    /\ chain' = ChainReplied(RespondWithError(RDMErrorString(status)))
    /\ ev' = HandlerEvent("SetHandler", status, <<>>)
    /\ UNCHANGED <<m_universe_uids, outstanding, discovery>>

(***************************************************************************)
(* The specification of the section requests: one request at a time, from  *)
(* its dispatch to its last reply.  What a device answers is drawn from    *)
(* the sets below, with every status.                                      *)
(***************************************************************************)
SoftwareVersions == {"", "1.2"}

DeviceModels == {"", "Par"}

DeviceDescriptors == [device_model : {1, 3}, software_version : {2}]

LanguageLists == {<<>>, <<"en">>, <<"en", "fr">>, <<"fr", "en", "fr">>}

Languages == {"en", "fr", "de"}

BootLabels == {"", "boot"}

BootVersions == {0, 3}

NextDispatch ==
    \/ \E uni_id \in UniverseIdStrings, uid_string \in UidStrings,
          section_id \in SectionIds, hint \in Hints, send_ok \in BOOLEAN :
          JsonSectionInfo(uni_id, uid_string, section_id, hint, send_ok)
    \/ \E uni_id \in UniverseIdStrings, uid_string \in UidStrings,
          section_id \in SectionIds, hint \in Hints, value \in FieldValues,
          send_ok \in BOOLEAN :
          JsonSaveSectionInfo(uni_id, uid_string, section_id, hint, value,
                              send_ok)
    \/ \E status \in ResponseTypes, send_ok \in BOOLEAN :
          \/ \E software_version \in SoftwareVersions :
                GetSoftwareVersionHandler(status, software_version, send_ok)
          \/ \E device_model \in DeviceModels :
                GetDeviceModelHandler(status, device_model, send_ok)
          \/ \E languages \in LanguageLists :
                GetSupportedLanguagesHandler(status, languages, send_ok)
          \/ \E label \in BootLabels :
                GetBootSoftwareLabelHandler(status, label, send_ok)
          \/ SensorDefinitionHandler(status, send_ok)
          \/ SensorValueHandler(status, send_ok)
    \/ \E status \in ResponseTypes, label \in Labels :
          \/ GetManufacturerLabelHandler(status, label)
          \/ GetDeviceLabelHandler(status, label)
    \/ \E status \in ResponseTypes :
          \/ \E device \in DeviceDescriptors :
                GetDeviceInfoHandler(status, device)
          \/ GetProductIdsHandler(status)
          \/ \E language \in Languages : GetLanguageHandler(status, language)
          \/ \E version \in BootVersions :
                GetBootSoftwareVersionHandler(status, version)
          \/ GetStartAddressHandler(status)
          \/ DeviceHoursHandler(status)
          \/ LampHoursHandler(status)
          \/ GetIdentifyModeHandler(status)
          \/ SetHandler(status)

SpecDispatch == Init /\ [][NextDispatch]_vars

(***************************************************************************)
(* The section requests together with the resolution of universe 1 and    *)
(* UID 1, which is the UID the section requests name: the label handlers   *)
(* of the chains and the resolution write the same resolved_uids.  The     *)
(* label a section request reads may have been changed since it was        *)
(* resolved.                                                               *)
(***************************************************************************)
ReadLabels == Labels \cup {"Stage left"}

NextCache ==
    \/ HandleUIDListError(1)
    \/ \E uids \in SUBSET {1}, fails \in 0..1 : HandleUIDList(1, uids, fails)
    \/ \E req \in LabelRequests({1}, {1}),
          status \in {TRANSPORT_ERROR, VALID_RESPONSE}, label \in Labels :
          UpdateUIDLabel(req, status, label, 0)
    \/ \E universes \in SUBSET {1} : PruneUniverseList(universes)
    \/ \E section_id \in SectionIds, send_ok \in BOOLEAN :
          JsonSectionInfo("1", "7a70:00000001", section_id,
                          IF section_id = SENSOR_SECTION THEN "0" ELSE "m",
                          send_ok)
    \/ \E section_id \in SectionIds :
          JsonSaveSectionInfo("1", "7a70:00000001", section_id, "", "1",
                              TRUE)
    \/ \E status \in {TRANSPORT_ERROR, VALID_RESPONSE}, label \in ReadLabels :
          \/ GetManufacturerLabelHandler(status, label)
          \/ GetDeviceLabelHandler(status, label)
    \/ \E status \in {TRANSPORT_ERROR, VALID_RESPONSE}, send_ok \in BOOLEAN :
          \/ GetSoftwareVersionHandler(status, "1.2", send_ok)
          \/ GetDeviceModelHandler(status, "Par", send_ok)
          \/ GetSupportedLanguagesHandler(status, <<"en">>, send_ok)
          \/ GetBootSoftwareLabelHandler(status, "boot", send_ok)
          \/ SensorDefinitionHandler(status, send_ok)
          \/ SensorValueHandler(status, send_ok)
    \/ \E status \in {TRANSPORT_ERROR, VALID_RESPONSE} :
          \/ GetDeviceInfoHandler(status, [device_model |-> 1,
                                           software_version |-> 2])
          \/ GetProductIdsHandler(status)
          \/ GetLanguageHandler(status, "en")
          \/ GetBootSoftwareVersionHandler(status, 3)
          \/ GetStartAddressHandler(status)
          \/ DeviceHoursHandler(status)
          \/ LampHoursHandler(status)
          \/ GetIdentifyModeHandler(status)
          \/ SetHandler(status)

SpecCache == Init /\ [][NextCache]_vars

(***************************************************************************)
(* Section discovery: JsonSupportedSections asks for the supported pids,   *)
(* SupportedSectionsHandler then asks for the device info and              *)
(* SupportedSectionsDeviceInfoHandler builds the list of sections.         *)
(***************************************************************************)
PID_DEVICE_MODEL_DESCRIPTION    == "PID_DEVICE_MODEL_DESCRIPTION"
PID_MANUFACTURER_LABEL          == "PID_MANUFACTURER_LABEL"
PID_DEVICE_LABEL                == "PID_DEVICE_LABEL"
PID_LANGUAGE                    == "PID_LANGUAGE"
PID_BOOT_SOFTWARE_VERSION_ID    == "PID_BOOT_SOFTWARE_VERSION_ID"
PID_BOOT_SOFTWARE_VERSION_LABEL == "PID_BOOT_SOFTWARE_VERSION_LABEL"
PID_DMX_START_ADDRESS           == "PID_DMX_START_ADDRESS"
PID_DEVICE_HOURS                == "PID_DEVICE_HOURS"
PID_LAMP_HOURS                  == "PID_LAMP_HOURS"
PID_PRODUCT_DETAIL_ID_LIST      == "PID_PRODUCT_DETAIL_ID_LIST"
PID_SENSOR_DEFINITION           == "PID_SENSOR_DEFINITION"
PID_SENSOR_VALUE                == "PID_SENSOR_VALUE"

\* the pid lists a device answers with: none, every recognised pid alone or
\* with a second one, a pid the scan does not know, a repeated pid, all
PidLists ==
    {<<>>,
     <<PID_MANUFACTURER_LABEL>>,
     <<PID_DEVICE_LABEL, PID_MANUFACTURER_LABEL>>,
     <<PID_LANGUAGE, "PID_DEVICE_POWER_CYCLES">>,
     <<PID_BOOT_SOFTWARE_VERSION_ID>>,
     <<PID_BOOT_SOFTWARE_VERSION_LABEL>>,
     <<PID_BOOT_SOFTWARE_VERSION_LABEL, PID_BOOT_SOFTWARE_VERSION_ID>>,
     <<PID_DMX_START_ADDRESS>>,
     <<PID_DMX_START_ADDRESS, PID_DMX_START_ADDRESS>>,
     <<PID_DEVICE_HOURS>>,
     <<PID_LAMP_HOURS>>,
     <<PID_LAMP_HOURS, PID_DEVICE_HOURS>>,
     <<PID_PRODUCT_DETAIL_ID_LIST, PID_DEVICE_MODEL_DESCRIPTION>>,
     <<PID_SENSOR_DEFINITION>>,
     <<PID_SENSOR_VALUE, PID_SENSOR_DEFINITION>>,
     <<PID_SENSOR_VALUE, PID_DMX_START_ADDRESS, PID_SENSOR_DEFINITION,
       PID_BOOT_SOFTWARE_VERSION_ID, PID_PRODUCT_DETAIL_ID_LIST,
       PID_LAMP_HOURS, PID_DEVICE_HOURS, PID_LANGUAGE, PID_DEVICE_LABEL,
       PID_MANUFACTURER_LABEL, PID_BOOT_SOFTWARE_VERSION_LABEL,
       PID_DEVICE_MODEL_DESCRIPTION>>}

\* the device descriptors of a valid GetDeviceInfo response
Devices == [dmx_footprint : {0, 4}, sensor_count : {0, 1, 2}]

\* section_info; the name is the sequence of the strings written to it
SectionInfo(section_id, section_name, hint) ==
    [id |-> section_id, name |-> section_name, hint |-> hint]

\* AddSection: push_back
AddSection(sections, section_id, section_name, hint) ==
    Append(sections, SectionInfo(section_id, section_name, hint))

\* the two sections added before the scan, without the identify section
CoreSections_NoIdentify(pids) ==
    LET hint == IF PID_DEVICE_MODEL_DESCRIPTION \in pids THEN "m" ELSE ""
    IN AddSection(<<>>, DEVICE_INFO_SECTION, <<"Device Info">>, hint)

\* the two sections added before the scan, without the look-up of the
\* device model pid
CoreSections_NoHint(pids) ==
    AddSection(
      AddSection(<<>>, DEVICE_INFO_SECTION, <<"Device Info">>, ""),
      IDENTIFY_SECTION, <<"Identify Mode">>, "")

\* the two sections added before the scan; both carry the hint
CoreSections(pids) ==
    LET hint == IF PID_DEVICE_MODEL_DESCRIPTION \in pids THEN "m" ELSE ""
    IN AddSection(
         AddSection(<<>>, DEVICE_INFO_SECTION, <<"Device Info">>, hint),
         IDENTIFY_SECTION, <<"Identify Mode">>, hint)

\* one case of the switch: the sections with the section of the pid added
ScanPid(sections, pid) ==
    CASE pid = PID_MANUFACTURER_LABEL ->
           AddSection(sections, MANUFACTURER_LABEL_SECTION,
                      <<"Manufacturer Label">>, "")
      [] pid = PID_DEVICE_LABEL ->
           AddSection(sections, DEVICE_LABEL_SECTION, <<"Device Label">>, "")
      [] pid = PID_LANGUAGE ->
           AddSection(sections, LANGUAGE_SECTION, <<"Language">>, "")
      [] pid = PID_DMX_START_ADDRESS ->
           AddSection(sections, DMX_ADDRESS_SECTION,
                      <<"DMX Start Address">>, "")
      [] pid = PID_DEVICE_HOURS ->
           AddSection(sections, DEVICE_HOURS_SECTION, <<"Device Hours">>, "")
      [] pid = PID_LAMP_HOURS ->
           AddSection(sections, DEVICE_HOURS_SECTION, <<"Lamp Hours">>, "")
      [] pid = PID_PRODUCT_DETAIL_ID_LIST ->
           AddSection(sections, PRODUCT_DETAIL_SECTION,
                      <<"Product Details">>, "")
      [] OTHER -> sections

\* the for loop over pid_list, from its i-th element on
RECURSIVE ScanPids(_, _, _)
ScanPids(sections, pid_list, i) ==
    IF i > Len(pid_list) THEN sections
    ELSE ScanPids(ScanPid(sections, pid_list[i]), pid_list, i + 1)

\* the boot software section, added once for every boot pid in the list
AddBootSoftware_PerPid(sections, pid_list) ==
    sections \o
    [i \in 1..Cardinality({j \in DOMAIN pid_list : pid_list[j] \in
                             {PID_BOOT_SOFTWARE_VERSION_ID,
                              PID_BOOT_SOFTWARE_VERSION_LABEL}}) |->
        SectionInfo(BOOT_SOFTWARE_SECTION, <<"Boot Software Version">>, "")]

\* include_software_version is set by either boot pid; the section is added
\* after the loop
AddBootSoftware(sections, pid_list) ==
    IF \E i \in DOMAIN pid_list :
          pid_list[i] \in {PID_BOOT_SOFTWARE_VERSION_ID,
                           PID_BOOT_SOFTWARE_VERSION_LABEL}
    THEN AddSection(sections, BOOT_SOFTWARE_SECTION,
                    <<"Boot Software Version">>, "")
    ELSE sections

\* the footprint adding its section whether or not the scan added one
AddFootprintAddress_Always(sections, pid_list, device) ==
    IF device.dmx_footprint # 0
    THEN AddSection(sections, DMX_ADDRESS_SECTION,
                    <<"DMX Start Address">>, "")
    ELSE sections

\* device.dmx_footprint && !dmx_address_added
AddFootprintAddress(sections, pid_list, device) ==
    IF device.dmx_footprint # 0
       /\ ~(\E i \in DOMAIN pid_list : pid_list[i] = PID_DMX_START_ADDRESS)
    THEN AddSection(sections, DMX_ADDRESS_SECTION,
                    <<"DMX Start Address">>, "")
    ELSE sections

\* the sensor sections with the heading of sensor i numbered i
AddSensors_ZeroBased(sections, pids, device) ==
    IF device.sensor_count # 0
       /\ PID_SENSOR_DEFINITION \in pids /\ PID_SENSOR_VALUE \in pids
    THEN sections \o
         [k \in 1..device.sensor_count |->
            SectionInfo(SENSOR_SECTION, <<"Sensor ", DecimalString(k - 1)>>,
                        DecimalString(k - 1))]
    ELSE sections

\* one section per sensor i < sensor_count: hint i, heading "Sensor " i + 1
AddSensors(sections, pids, device) ==
    IF device.sensor_count # 0
       /\ PID_SENSOR_DEFINITION \in pids /\ PID_SENSOR_VALUE \in pids
    THEN sections \o
         [k \in 1..device.sensor_count |->
            SectionInfo(SENSOR_SECTION, <<"Sensor ", DecimalString(k)>>,
                        DecimalString(k - 1))]
    ELSE sections

\* the sections in the order they are added, before sort()
UnsortedSections(pid_list, status, device) ==
    LET pids == Range(pid_list)
        scanned == AddBootSoftware(
                      ScanPids(CoreSections(pids), pid_list, 1), pid_list)
    IN IF CheckForRDMSuccess(status)
       THEN AddSensors(AddFootprintAddress(scanned, pid_list, device),
                       pids, device)
       ELSE scanned

\* the order of the section ids that lt_section_info compares by
SectionOrder ==
    <<DEVICE_INFO_SECTION, IDENTIFY_SECTION, MANUFACTURER_LABEL_SECTION,
      DEVICE_LABEL_SECTION, LANGUAGE_SECTION, DMX_ADDRESS_SECTION,
      DEVICE_HOURS_SECTION, LAMP_HOURS_SECTION, PRODUCT_DETAIL_SECTION,
      BOOT_SOFTWARE_SECTION, SENSOR_SECTION>>

SectionRank(section_id) ==
    CHOOSE k \in DOMAIN SectionOrder : SectionOrder[k] = section_id

lt_section_info(left, right) == SectionRank(left.id) < SectionRank(right.id)

Reverse(s) == [i \in 1..Len(s) |-> s[Len(s) + 1 - i]]

\* x put into a sorted sequence behind the elements that are not above it
InsertSection(sorted, x) ==
    LET k == Cardinality({i \in DOMAIN sorted : ~lt_section_info(x, sorted[i])})
    IN SubSeq(sorted, 1, k) \o <<x>> \o SubSeq(sorted, k + 1, Len(sorted))

RECURSIVE InsertSections(_, _, _)
InsertSections(sorted, sections, i) ==
    IF i > Len(sections) THEN sorted
    ELSE InsertSections(InsertSection(sorted, sections[i]), sections, i + 1)

\* sort(sections.begin(), sections.end(), lt_section_info()): sort() orders
\* by the comparison and leaves the order of equal sections to the build
SortSections(sections, sort_ties) ==
    IF sort_ties = "kept" THEN InsertSections(<<>>, sections, 1)
    ELSE InsertSections(<<>>, Reverse(sections), 1)

\* the reply that carries the list of sections
RespondWithSections(sections) ==
    [kind |-> "Sections", text |-> <<>>, sections |-> sections]

\* the phase-one test with the NACK left out
PhaseOneAccepted_ValidOnly(status) == CheckForRDMSuccess(status)

\* "nacks here are ok": SupportedSectionsHandler goes on after a valid
\* response and after a NACK
PhaseOneAccepted(status) ==
    CheckForRDMSuccess(status) \/ status = REQUEST_NACKED

JsonSupportedSections(uni_id, uid_string, send_ok) ==
    LET valid == CheckForInvalidId(uni_id) /\ CheckForInvalidUid(uid_string)
    IN /\ ChainIdle
       /\ chain' =
            IF ~valid
              THEN [NoChain EXCEPT !.replies = <<ServeNotFound>>]
            ELSE IF ~send_ok
              THEN [NoChain EXCEPT
                      !.universe = DecimalValue(uni_id),
                      !.uid = UIDFromString(uid_string),
                      !.replies = <<[kind |-> "ServeError",
                                     text |-> <<BACKEND_DISCONNECTED_ERROR>>]>>]
            ELSE [NoChain EXCEPT
                    !.universe = DecimalValue(uni_id),
                    !.uid = UIDFromString(uid_string),
                    !.callback = "SupportedSectionsHandler"]
       /\ ev' = [NoEvent EXCEPT
                   !.op = "JsonSupportedSections",
                   !.universe = IF CheckForInvalidId(uni_id)
                                THEN DecimalValue(uni_id) ELSE 0,
                   !.uid = UIDFromString(uid_string),
                   !.calls = IF valid
                             THEN <<[method |-> "GetSupportedParameters",
                                     arg |-> ""]>>
                             ELSE <<>>]
       /\ UNCHANGED <<m_universe_uids, outstanding, discovery>>

SupportedSectionsHandler(status, pid_list, send_ok) ==
    /\ ChainAwaits("SupportedSectionsHandler")
    /\ IF PhaseOneAccepted(status)
       THEN /\ chain' = [ChainCalled("SupportedSectionsDeviceInfoHandler",
                                     send_ok)
                           EXCEPT !.pid_list = pid_list]
            /\ ev' = HandlerEvent("SupportedSectionsHandler", status,
                                  <<[method |-> "GetDeviceInfo", arg |-> ""]>>)
       ELSE /\ chain' = ChainReplied(ServeError(""))
            /\ ev' = HandlerEvent("SupportedSectionsHandler", status, <<>>)
    /\ UNCHANGED <<m_universe_uids, outstanding, discovery>>

\* the handler replying with an error when the device info was not read
SupportedSectionsDeviceInfoHandler_FailsOnError(status, device) ==
    /\ ChainAwaits("SupportedSectionsDeviceInfoHandler")
    /\ ev' = HandlerEvent("SupportedSectionsDeviceInfoHandler", status, <<>>)
    /\ IF CheckForRDMSuccess(status)
       THEN LET sections ==
                  SortSections(UnsortedSections(chain.pid_list, status,
                                                device),
                               discovery.sort_ties)
            IN /\ chain' = ChainReplied(RespondWithSections(sections))
               /\ discovery' = [discovery EXCEPT
                                  !.done = TRUE, !.pid_list = chain.pid_list,
                                  !.status = status, !.device = device,
                                  !.sections = sections]
       ELSE /\ chain' = ChainReplied(ServeError(""))
            /\ UNCHANGED discovery
    /\ UNCHANGED <<m_universe_uids, outstanding>>

SupportedSectionsDeviceInfoHandler(status, device) ==
    LET sections ==
          SortSections(UnsortedSections(chain.pid_list, status, device),
                       discovery.sort_ties)
    IN /\ ChainAwaits("SupportedSectionsDeviceInfoHandler")
       /\ chain' = ChainReplied(RespondWithSections(sections))
       /\ discovery' = [discovery EXCEPT
                          !.done = TRUE, !.pid_list = chain.pid_list,
                          !.status = status, !.device = device,
                          !.sections = sections]
       /\ ev' = HandlerEvent("SupportedSectionsDeviceInfoHandler", status,
                             <<>>)
       /\ UNCHANGED <<m_universe_uids, outstanding>>

(***************************************************************************)
(* The specification of the section discovery: one discovery at a time,    *)
(* on a build of either kind.  A response that is not valid carries no     *)
(* pid list and no device descriptor.                                      *)
(***************************************************************************)
NextDiscovery ==
    \/ \E uni_id \in UniverseIdStrings, uid_string \in UidStrings,
          send_ok \in BOOLEAN :
          JsonSupportedSections(uni_id, uid_string, send_ok)
    \/ \E status \in ResponseTypes, pid_list \in PidLists,
          send_ok \in BOOLEAN :
          /\ status # VALID_RESPONSE => pid_list = <<>>
          /\ SupportedSectionsHandler(status, pid_list, send_ok)
    \/ \E status \in ResponseTypes, device \in Devices \cup {NoDevice} :
          /\ status # VALID_RESPONSE => device = NoDevice
          /\ SupportedSectionsDeviceInfoHandler(status, device)

SpecDiscovery == InitAnyBuild /\ [][NextDiscovery]_vars

(***************************************************************************)
(* Helpers of the properties                                               *)
(***************************************************************************)
Tracked == DOMAIN m_universe_uids

\* the UIDs that the records of a queue name
QueuedUids(queue) == {queue[i].uid : i \in DOMAIN queue}

\* the (uid, action) records of a sequence of attempted sends
AttemptRecords(attempts) ==
    [i \in DOMAIN attempts |->
       [uid |-> attempts[i].uid, action |-> attempts[i].action]]

\* a send of the last handler was accepted by the transport
SomeSent(attempts) == \E i \in DOMAIN attempts : attempts[i].sent

(***************************************************************************)
(* C1: for every universe, in every reachable state, at most one           *)
(* resolution request issued by ResolveNextUID is outstanding, also when   *)
(* the universe is pruned with a request in flight and created again.      *)
(***************************************************************************)
C1_AtMostOneOutstanding ==
    \A u \in Universes : OutstandingFor(u) <= 1

(***************************************************************************)
(* C2: whenever uid_resolution_running of a tracked universe is true,      *)
(* exactly one resolution request is outstanding for that universe.        *)
(***************************************************************************)
C2_RunningHasOneOutstanding ==
    \A u \in Tracked :
        m_universe_uids[u].uid_resolution_running => OutstandingFor(u) = 1

(***************************************************************************)
(* C3: a successful HandleUIDList pushes, for every reported UID that had  *)
(* no entry in resolved_uids, exactly two records, RESOLVE_MANUFACTURER    *)
(* first and RESOLVE_DEVICE right after it, and creates an entry with      *)
(* empty labels; a reported UID that had an entry pushes nothing.          *)
(***************************************************************************)
C3_TwoRecordsPerNewUid ==
    [][ev'.op = "HandleUIDList" =>
         LET U == ev'.universe
             known == IF U \in Tracked
                      THEN DOMAIN m_universe_uids[U].resolved_uids ELSE {}
             fresh == ev'.uids \ known
             pushed == ev'.pushed
         IN /\ Len(pushed) = 2 * Cardinality(fresh)
            /\ QueuedUids(pushed) = fresh
            /\ \A uid \in fresh :
                 /\ \E i \in 1..(Len(pushed) - 1) :
                      /\ pushed[i] = [uid |-> uid,
                                      action |-> RESOLVE_MANUFACTURER]
                      /\ pushed[i + 1] = [uid |-> uid,
                                          action |-> RESOLVE_DEVICE]
                 /\ uid \in DOMAIN m_universe_uids'[U].resolved_uids
                 /\ m_universe_uids'[U].resolved_uids[uid].manufacturer = ""
                 /\ m_universe_uids'[U].resolved_uids[uid].device = ""
      ]_vars

\* a report of two UIDs, one with an entry and one without, has pushed the
\* two records of the new one
C3_Witness ==
    /\ ev.op = "HandleUIDList"
    /\ ev.uids = {1, 2}
    /\ ev.pushed = <<[uid |-> 2, action |-> RESOLVE_MANUFACTURER],
                     [uid |-> 2, action |-> RESOLVE_DEVICE]>>

(***************************************************************************)
(* C4 as claimed: in every reachable state every UID named by a record of  *)
(* pending_uids has an entry in resolved_uids of that universe.            *)
(***************************************************************************)
C4_QueuedUidsAreResolved ==
    \A u \in Tracked :
        QueuedUids(m_universe_uids[u].pending_uids)
            \subseteq DOMAIN m_universe_uids[u].resolved_uids

(***************************************************************************)
(* C4 as amended: a UID named by a queued record is without an entry in    *)
(* resolved_uids only from a HandleUIDList of that universe whose UID set  *)
(* omits it (the sweep evicts the entry, the records stay queued); every   *)
(* handler that queues records for a UID leaves the UID with an entry.     *)
(***************************************************************************)
Orphans(m, u) ==
    IF u \in DOMAIN m
    THEN QueuedUids(m[u].pending_uids) \ DOMAIN m[u].resolved_uids
    ELSE {}

C4_OrphansOnlyByOmission ==
    [][\A u \in Universes :
         \A uid \in Orphans(m_universe_uids', u) :
            \/ uid \in Orphans(m_universe_uids, u)
            \/ /\ ev'.op = "HandleUIDList"
               /\ ev'.universe = u
               /\ uid \notin ev'.uids
      ]_vars

\* a report has evicted a UID whose records are still queued
C4_Witness ==
    /\ ev.op = "HandleUIDList"
    /\ Orphans(m_universe_uids, ev.universe) # {}

(***************************************************************************)
(* C5: the requests of one universe are issued in the FIFO order in which  *)
(* their records were queued (every handler attempts the records at the    *)
(* front of the queue, in order, and leaves the rest), each one only after *)
(* the previous request completed or was rejected synchronously (a request *)
(* the transport accepts is the only outstanding one of its universe).     *)
(***************************************************************************)
C5_FifoOneAtATime ==
    [][(ev'.op \in {"HandleUIDList", "UpdateUIDLabel"}
          /\ ev'.universe \in DOMAIN m_universe_uids') =>
         LET U == ev'.universe
             before == IF U \in Tracked
                       THEN m_universe_uids[U].pending_uids ELSE <<>>
             queue == before \o ev'.pushed
             n == Len(ev'.attempts)
         IN /\ n <= Len(queue)
            /\ AttemptRecords(ev'.attempts) = SubSeq(queue, 1, n)
            /\ m_universe_uids'[U].pending_uids = SubSeq(queue, n + 1, Len(queue))
            /\ SomeSent(ev'.attempts) => OutstandingIn(outstanding', U) = 1
      ]_vars

\* the FIFO part of C5 alone
FifoOrder ==
    [][(ev'.op \in {"HandleUIDList", "UpdateUIDLabel"}
          /\ ev'.universe \in DOMAIN m_universe_uids') =>
         LET U == ev'.universe
             before == IF U \in Tracked
                       THEN m_universe_uids[U].pending_uids ELSE <<>>
             queue == before \o ev'.pushed
             n == Len(ev'.attempts)
         IN /\ n <= Len(queue)
            /\ AttemptRecords(ev'.attempts) = SubSeq(queue, 1, n)
            /\ m_universe_uids'[U].pending_uids = SubSeq(queue, n + 1, Len(queue))
      ]_vars

(***************************************************************************)
(* C6: when a successful HandleUIDList(universe, uids) has returned, the   *)
(* keys of resolved_uids of that universe are exactly uids.                *)
(***************************************************************************)
C6_ResolvedIsReported ==
    ev.op = "HandleUIDList" =>
        /\ ev.universe \in Tracked
        /\ DOMAIN m_universe_uids[ev.universe].resolved_uids = ev.uids

\* a report of UID 2 alone has evicted UID 1, whose record is still queued
C6_Witness ==
    /\ ev.op = "HandleUIDList"
    /\ ev.uids = {2}
    /\ ev.pushed # <<>>
    /\ 1 \in QueuedUids(m_universe_uids[ev.universe].pending_uids)

(***************************************************************************)
(* C7: PruneUniverseList(universes) destroys exactly the tracked universes *)
(* that are not in universes; a tracked universe that is listed keeps its  *)
(* resolved_uids, pending_uids and uid_resolution_running; no state is     *)
(* created for a listed universe that was not tracked.                     *)
(***************************************************************************)
C7_PruneFrame ==
    [][ev'.op = "PruneUniverseList" =>
         /\ DOMAIN m_universe_uids' = Tracked \cap ev'.universes
         /\ \A u \in Tracked \cap ev'.universes :
              /\ m_universe_uids'[u].resolved_uids
                   = m_universe_uids[u].resolved_uids
              /\ m_universe_uids'[u].pending_uids
                   = m_universe_uids[u].pending_uids
              /\ m_universe_uids'[u].uid_resolution_running
                   = m_universe_uids[u].uid_resolution_running
      ]_vars

\* a prune that lists universe 2 alone has removed universe 1 and kept
\* universe 2, which has a queue and a request in flight
C7_Witness ==
    /\ ev.op = "PruneUniverseList"
    /\ ev.universes = {2}
    /\ ev.removed = {1}
    /\ Tracked = {2}
    /\ m_universe_uids[2].uid_resolution_running
    /\ m_universe_uids[2].pending_uids # <<>>

(***************************************************************************)
(* C8: pruning is idempotent: a second PruneUniverseList with the same     *)
(* universes, right after the first, removes no universe and leaves the    *)
(* resolution state as the first call left it.                             *)
(***************************************************************************)
C8_PruneIdempotent ==
    [][(ev.op = "PruneUniverseList" /\ ev'.op = "PruneUniverseList"
          /\ ev'.universes = ev.universes) =>
         /\ m_universe_uids' = m_universe_uids
         /\ outstanding' = outstanding
         /\ ev'.removed = {}
      ]_vars

\* the second of two equal prunes has run; the universe the first one
\* removed still has its request in flight, the other universe is tracked
C8_Witness ==
    /\ ev.op = "PruneUniverseList"
    /\ ev.again
    /\ Tracked # {}
    /\ \E u \in Universes \ Tracked : OutstandingFor(u) > 0

(***************************************************************************)
(* C9: universes resolve independently: a membership report or a           *)
(* completion of universe U (with the ResolveNextUID it runs) leaves the   *)
(* state and the outstanding requests of every other universe unchanged,   *)
(* and a universe with no resolution running that gets records queued      *)
(* attempts a send in the same step, whatever is outstanding elsewhere.    *)
(***************************************************************************)
C9_UniversesIndependent ==
    [][ev'.op \in {"HandleUIDList", "HandleUIDListError", "UpdateUIDLabel"} =>
         /\ \A v \in Universes \ {ev'.universe} :
              /\ (v \in DOMAIN m_universe_uids') = (v \in Tracked)
              /\ v \in Tracked => m_universe_uids'[v] = m_universe_uids[v]
              /\ OutstandingIn(outstanding', v) = OutstandingIn(outstanding, v)
         /\ (/\ ev'.op = "HandleUIDList"
             /\ ev'.pushed # <<>>
             /\ (ev'.universe \in Tracked =>
                   ~m_universe_uids[ev'.universe].uid_resolution_running))
            => ev'.attempts # <<>>
      ]_vars

\* universe 2 has just issued a request while a request of universe 1 is
\* outstanding
C9_Witness ==
    /\ ev.op = "HandleUIDList"
    /\ ev.universe = 2
    /\ SomeSent(ev.attempts)
    /\ OutstandingFor(1) = 1
    /\ OutstandingFor(2) = 1
    /\ 1 \in Tracked

(***************************************************************************)
(* C10: a section request whose section id is not in the registry for its  *)
(* direction is answered NotFound and makes no m_rdm_api call: a read of   *)
(* an id outside the eleven read sections, a write of an id outside the    *)
(* seven writable sections, a write to the read-only device_info included. *)
(* SpecDispatch                                                            *)
(***************************************************************************)
RegistryReadIds ==
    {"device_info", "product_detail", "manufacturer_label", "device_label",
     "language", "boot_software", "dmx_address", "sensor", "device_hours",
     "lamp_hours", "identify"}

RegistryWriteIds ==
    {"device_label", "language", "dmx_address", "sensor", "device_hours",
     "lamp_hours", "identify"}

\* the request just dispatched was answered NotFound and nothing else was done
AnsweredNotFound ==
    /\ chain.replies = <<ServeNotFound>>
    /\ ev.calls = <<>>
    /\ chain.callback = ""

C10_AbsentSectionNotFound ==
    /\ (ev.op = "JsonSectionInfo" /\ ev.section \notin RegistryReadIds)
          => AnsweredNotFound
    /\ (ev.op = "JsonSaveSectionInfo" /\ ev.section \notin RegistryWriteIds)
          => AnsweredNotFound

\* a write to device_info, for a valid universe id and UID, answered NotFound
C10_Witness ==
    /\ ev.op = "JsonSaveSectionInfo"
    /\ ev.section = "device_info"
    /\ ev.universe = 1 /\ ev.uid = 1
    /\ AnsweredNotFound

(***************************************************************************)
(* C11: a write to the start-address section whose value is not a number   *)
(* in [0, 512) is answered with a validation error and makes no            *)
(* SetDMXAddress call; only a value inside the range makes the call.       *)
(* SpecDispatch                                                            *)
(***************************************************************************)
\* the request just dispatched is a start-address write for a valid universe
\* id and UID
StartAddressWrite ==
    /\ ev.op = "JsonSaveSectionInfo"
    /\ ev.section = "dmx_address"
    /\ ev.universe = 1 /\ ev.uid = 1

C11_StartAddressInRange ==
    StartAddressWrite =>
        IF DecimalValue(ev.value) >= 0 /\ DecimalValue(ev.value) < 512
        THEN ev.calls = <<[method |-> "SetDMXAddress", arg |-> ev.value]>>
        ELSE /\ ev.calls = <<>>
             /\ chain.callback = ""
             /\ chain.replies = <<RespondWithError("Invalid start address")>>

\* the replies of the section discovery
LastReply == chain.replies[Len(chain.replies)]

RepliedWith(kind) == chain.replies # <<>> /\ LastReply.kind = kind

(***************************************************************************)
(* C12: the section discovery ends in an error exactly when the supported- *)
(* pids exchange or the device-info exchange ends in a transport error;    *)
(* any other outcome of either exchange yields no error.                   *)
(* SpecDiscovery                                                           *)
(***************************************************************************)
C12_ErrorOnlyOnTransportError ==
    /\ ev.op = "SupportedSectionsHandler"
         => ((ev.calls = <<>> /\ RepliedWith("ServeError"))
               <=> ev.status = TRANSPORT_ERROR)
    /\ ev.op = "SupportedSectionsDeviceInfoHandler"
         => (RepliedWith("ServeError") <=> ev.status = TRANSPORT_ERROR)

(***************************************************************************)
(* C12 as the handlers have it: the supported-pids exchange ends the       *)
(* discovery in an error, with no device-info request, exactly when its    *)
(* status is neither valid nor NACKed; the device-info exchange never      *)
(* does: whatever its status, the reply is a section list.                 *)
(***************************************************************************)
C12_ErrorOnlyInPhaseOne ==
    /\ ev.op = "SupportedSectionsHandler"
         => ((ev.calls = <<>> /\ RepliedWith("ServeError"))
               <=> ev.status \notin {VALID_RESPONSE, REQUEST_NACKED})
    /\ ev.op = "SupportedSectionsDeviceInfoHandler"
         => /\ Len(chain.replies) = 1
            /\ RepliedWith("Sections")

\* a device-info exchange that ended in a transport error, answered with a
\* section list
C12_Witness ==
    /\ ev.op = "SupportedSectionsDeviceInfoHandler"
    /\ ev.status = TRANSPORT_ERROR
    /\ RepliedWith("Sections")

(***************************************************************************)
(* C13: a NACKed supported-pids response is tolerated: the device-info     *)
(* request is made and the list served then holds the two core sections;   *)
(* a transport error of the supported-pids exchange ends the discovery     *)
(* with an error and without a device-info request; the device-info        *)
(* request is made by SupportedSectionsHandler only, that is after the     *)
(* supported-pids exchange has completed.                                  *)
(* SpecDiscovery                                                           *)
(***************************************************************************)
DeviceInfoRequest == <<[method |-> "GetDeviceInfo", arg |-> ""]>>

HasCoreSections(sections) ==
    /\ \E i \in DOMAIN sections : sections[i].id = "device_info"
    /\ \E i \in DOMAIN sections : sections[i].id = "identify"

C13_NackToleratedTransportAborts ==
    [][/\ (ev'.op = "SupportedSectionsHandler"
             /\ ev'.status = REQUEST_NACKED)
            => ev'.calls = DeviceInfoRequest
       /\ (ev.op = "SupportedSectionsHandler" /\ ev.status = REQUEST_NACKED
             /\ ev'.op = "SupportedSectionsDeviceInfoHandler")
            => /\ chain'.replies # <<>>
               /\ chain'.replies[1].kind = "Sections"
               /\ HasCoreSections(chain'.replies[1].sections)
       /\ (ev'.op = "SupportedSectionsHandler"
             /\ ev'.status = TRANSPORT_ERROR)
            => /\ ev'.calls = <<>>
               /\ chain'.callback = ""
               /\ chain'.replies = <<ServeError("")>>
       /\ (ev'.calls = DeviceInfoRequest
             \/ (chain'.callback = "SupportedSectionsDeviceInfoHandler"
                   /\ chain.callback # chain'.callback))
            => /\ chain.callback = "SupportedSectionsHandler"
               /\ ev'.op = "SupportedSectionsHandler"
      ]_vars

\* the device-info request made after a NACKed supported-pids response
C13_Witness ==
    /\ ev.op = "SupportedSectionsHandler"
    /\ ev.status = REQUEST_NACKED
    /\ ev.calls = DeviceInfoRequest
    /\ chain.callback = "SupportedSectionsDeviceInfoHandler"

\* the sections of the last list served that carry a section id
SectionsWithId(section_id) ==
    LET HasId(x) == x.id = section_id
    IN SelectSeq(discovery.sections, HasId)

\* how often a pid is in the pid list of the last list served
Occurrences(pid) ==
    Cardinality({i \in DOMAIN discovery.pid_list : discovery.pid_list[i] = pid})

SensorHintAndNumber == <<<<"0", "1">>, <<"1", "2">>, <<"2", "3">>>>

ExpectedSensors(n) ==
    {[id |-> "sensor",
      name |-> <<"Sensor ", SensorHintAndNumber[k][2]>>,
      hint |-> SensorHintAndNumber[k][1]] : k \in 1..n}

C15_SensorSections ==
    LET sensors == SectionsWithId("sensor")
        n == discovery.device.sensor_count
    IN discovery.done =>
         IF /\ discovery.status = VALID_RESPONSE
            /\ Occurrences("PID_SENSOR_DEFINITION") > 0
            /\ Occurrences("PID_SENSOR_VALUE") > 0
         THEN /\ Len(sensors) = n
              /\ Range(sensors) = ExpectedSensors(n)
         ELSE sensors = <<>>

\* two sensors reported and two sensor sections served
C15_Witness ==
    /\ discovery.done
    /\ discovery.device.sensor_count = 2
    /\ Len(SectionsWithId("sensor")) = 2

(***************************************************************************)
(* C16: with a non-zero footprint in the device descriptor and no start-   *)
(* address pid in the list, the list served has the start-address section; *)
(* with the pid in the list the footprint adds no further one.             *)
(* SpecDiscovery                                                           *)
(***************************************************************************)
C16_FootprintFallback ==
    LET n == Len(SectionsWithId("dmx_address"))
        listed == Occurrences("PID_DMX_START_ADDRESS")
    IN discovery.done =>
         /\ (discovery.status = VALID_RESPONSE
               /\ discovery.device.dmx_footprint # 0 /\ listed = 0)
              => n = 1
         /\ listed > 0 => n = listed

\* a footprint of 4, no start-address pid, and the section in the list
C16_Witness ==
    /\ discovery.done
    /\ discovery.device.dmx_footprint = 4
    /\ Occurrences("PID_DMX_START_ADDRESS") = 0
    /\ Len(SectionsWithId("dmx_address")) = 1

(***************************************************************************)
(* C17: the boot software section is in a list served at most once, also   *)
(* with both boot pids in the pid list, and exactly once with at least one *)
(* of them.                                                                *)
(* SpecDiscovery                                                           *)
(***************************************************************************)
C17_BootSoftwareOnce ==
    LET n == Len(SectionsWithId("boot_software"))
        listed == Occurrences("PID_BOOT_SOFTWARE_VERSION_ID")
                    + Occurrences("PID_BOOT_SOFTWARE_VERSION_LABEL")
    IN discovery.done =>
         /\ n <= 1
         /\ listed > 0 <=> n = 1

\* both boot pids in the list and one boot software section
C17_Witness ==
    /\ discovery.done
    /\ Occurrences("PID_BOOT_SOFTWARE_VERSION_ID") > 0
    /\ Occurrences("PID_BOOT_SOFTWARE_VERSION_LABEL") > 0
    /\ Len(SectionsWithId("boot_software")) = 1

(***************************************************************************)
(* C18: CheckForRDMSuccessWithError puts each of the five response types   *)
(* (and an unknown one) into one class of its own, and it and              *)
(* CheckForRDMSuccess return true for a valid response only; a broadcast   *)
(* and an unknown status are failures.  Seen at the handlers that reply    *)
(* with CheckForRDMError: a section for a valid response, else the error   *)
(* of the class.                                                           *)
(* SpecDispatch                                                            *)
(***************************************************************************)
CheckedHandlers ==
    {"GetDeviceInfoHandler", "GetProductIdsHandler",
     "GetManufacturerLabelHandler", "GetDeviceLabelHandler",
     "GetStartAddressHandler", "DeviceHoursHandler", "LampHoursHandler",
     "GetIdentifyModeHandler"}

\* the error string of each class of failure
ErrorOfClass ==
    [s \in ResponseTypes \ {"VALID_RESPONSE"} |->
        CASE s = "TRANSPORT_ERROR"    -> "RDM command error: "
          [] s = "BROADCAST_REQUEST"  -> ""
          [] s = "REQUEST_NACKED"     -> "Request was NACKED with code: "
          [] s = "MALFORMED_RESPONSE" -> "Malformed RDM response "
          [] OTHER                    -> "Unknown response status "]

C18_ValidIsTheOnlySuccess ==
    /\ \A s \in ResponseTypes :
          /\ CheckForRDMSuccessWithError(s) <=> s = "VALID_RESPONSE"
          /\ CheckForRDMSuccess(s) <=> s = "VALID_RESPONSE"
    /\ \A s, t \in ResponseTypes :
          s # t => <<CheckForRDMSuccessWithError(s), RDMErrorString(s)>>
                     # <<CheckForRDMSuccessWithError(t), RDMErrorString(t)>>
    /\ ev.op \in CheckedHandlers =>
          /\ Len(chain.replies) = 1
          /\ IF ev.status = "VALID_RESPONSE"
             THEN chain.replies[1].kind = "Section"
             ELSE chain.replies[1] =
                    [kind |-> "Error", text |-> <<ErrorOfClass[ev.status]>>]

\* a broadcast outcome at a handler that checks: answered with an error
C18_Witness ==
    /\ ev.op = "GetStartAddressHandler"
    /\ ev.status = "BROADCAST_REQUEST"
    /\ chain.replies = <<[kind |-> "Error", text |-> <<"">>]>>

(***************************************************************************)
(* C19: in every read chain a step whose exchange ends in a transport      *)
(* error ends the chain: the handler makes no further request and the      *)
(* request is answered with the transport error.                           *)
(* SpecDispatch                                                            *)
(***************************************************************************)
StepHandlers ==
    {"GetSoftwareVersionHandler", "GetDeviceModelHandler",
     "GetSupportedLanguagesHandler", "GetBootSoftwareLabelHandler",
     "SensorDefinitionHandler"}

UncheckedLastHandlers == {"GetLanguageHandler", "GetBootSoftwareVersionHandler"}

ReadHandlers ==
    StepHandlers \cup UncheckedLastHandlers \cup CheckedHandlers
      \cup {"SensorValueHandler"}

TransportErrorReply ==
    [kind |-> "Error", text |-> <<"RDM command error: ">>]

C19_TransportErrorAborts ==
    (ev.op \in ReadHandlers /\ ev.status = "TRANSPORT_ERROR")
      => /\ ev.calls = <<>>
         /\ chain.callback = ""
         /\ chain.replies = <<TransportErrorReply>>

(***************************************************************************)
(* C19 as the handlers have it: a transport error ends the chain with the  *)
(* transport error only at a last step that checks the status; a handler   *)
(* of an earlier step makes the next request all the same, and the last    *)
(* steps of the language and the boot software chain serve their section.  *)
(***************************************************************************)
C19_TransportErrorAtCheckedLastStep ==
    (ev.op \in ReadHandlers /\ ev.status = "TRANSPORT_ERROR")
      => /\ ev.op \in CheckedHandlers \cup {"SensorValueHandler"}
            => /\ ev.calls = <<>>
               /\ chain.callback = ""
               /\ chain.replies = <<TransportErrorReply>>
         /\ ev.op \in StepHandlers
            => /\ Len(ev.calls) = 1
               /\ \/ chain.callback # "" /\ chain.replies = <<>>
                  \/ chain.callback = "" /\ RepliedWith("ServeError")
         /\ ev.op \in UncheckedLastHandlers
            => /\ ev.calls = <<>>
               /\ chain.callback = ""
               /\ Len(chain.replies) = 1
               /\ RepliedWith("Section")

\* the software version exchange ended in a transport error and the next
\* request of the device info chain is in flight
C19_Witness ==
    /\ ev.op = "GetSoftwareVersionHandler"
    /\ ev.status = "TRANSPORT_ERROR"
    /\ chain.callback \in {"GetDeviceModelHandler", "GetDeviceInfoHandler"}
    /\ chain.replies = <<>>

(***************************************************************************)
(* C20: every section request and every discovery is answered exactly      *)
(* once: never twice, and once no callback of it is left, once.            *)
(* SpecDispatch                                                            *)
(***************************************************************************)
C20_ExactlyOneResult ==
    /\ Len(chain.replies) <= 1
    /\ (ev.op # "none" /\ chain.callback = "") => Len(chain.replies) = 1

(***************************************************************************)
(* C21: the sensor definition handler requests the current value whether   *)
(* or not the definition fetch succeeded, and a valid value that arrives   *)
(* after a failed definition fetch is rendered normally: the handler       *)
(* completes with the sensor section and reads no field of the missing     *)
(* definition.                                                             *)
(* SpecDispatch                                                            *)
(***************************************************************************)
ValueWithoutDefinition ==
    /\ ev.op = "SensorValueHandler"
    /\ ev.status = "VALID_RESPONSE"
    /\ ~chain.definition

C21_NullDefinitionTolerated ==
    /\ ev.op = "SensorDefinitionHandler"
          => ev.calls = <<[method |-> "GetSensorValue", arg |-> chain.hint]>>
    /\ ValueWithoutDefinition
          => /\ ~chain.crashed
             /\ chain.replies = <<RespondWithSection("Sensor")>>

(***************************************************************************)
(* C22: an error reply starts with the backend-unavailable prefix exactly  *)
(* when the request could not be sent: the error of a rejected parameter   *)
(* (an invalid sensor hint on a read) and the error of a device never      *)
(* carry it, and the failure to send the request of a write chain does.    *)
(* SpecDispatch                                                            *)
(***************************************************************************)
ErrorReplies ==
    {r \in Range(chain.replies) : r.kind \in {"ServeError", "Error"}}

CarriesBackendPrefix(reply) == reply.text[1] = BACKEND_DISCONNECTED_ERROR

IsSendFailure(reply) == reply.text[Len(reply.text)] = "send failed"

C22_PrefixIffSendFailure ==
    \A reply \in ErrorReplies :
       CarriesBackendPrefix(reply) <=> IsSendFailure(reply)

(***************************************************************************)
(* The resolution engine with a transport that runs the callbacks of the   *)
(* requests it accepted: while a label request is outstanding, the         *)
(* completion of an outstanding request is not put off for ever.           *)
(***************************************************************************)
Completion ==
    \E req \in LabelRequests({1}, UIDs), status \in ResponseTypes,
       label \in Labels, fails \in 0..MaxPending :
       UpdateUIDLabel(req, status, label, fails)

SpecCompleting == Init /\ [][Next]_vars /\ WF_vars(Completion)

(***************************************************************************)
(* C23: when from some point on universe 1 stays in the map and no UID     *)
(* list arrives for it, and every request the transport accepted           *)
(* completes, then every record of the pending queue is attempted: the     *)
(* universe ends with an empty queue and uid_resolution_running false, and *)
(* stays so.                                                               *)
(* SpecCompleting                                                          *)
(***************************************************************************)
\* the step is a HandleUIDList for universe 1
UidListArrives == ev'.op = "HandleUIDList" /\ ev'.universe = 1

Drained(universe) ==
    /\ universe \in Tracked
    /\ m_universe_uids[universe].pending_uids = <<>>
    /\ ~m_universe_uids[universe].uid_resolution_running

\* a step that leaves universe 1 in the map and is no UID list for it
QuietStep == 1 \in Tracked /\ 1 \in Tracked' /\ ~UidListArrives

\* the step takes records off the front of the queue only, and attempts
\* each record it takes off
PopsAreAttempts ==
    LET before == m_universe_uids[1].pending_uids
        after == m_universe_uids'[1].pending_uids
        n == Len(before) - Len(after)
    IN /\ n >= 0
       /\ after = SubSeq(before, n + 1, Len(before))
       /\ Len(ev'.attempts) = n
       /\ \A i \in 1..n : /\ ev'.attempts[i].universe = 1
                           /\ ev'.attempts[i].uid = before[i].uid
                           /\ ev'.attempts[i].action = before[i].action

C23_QueueDrains ==
    /\ (<>[](1 \in Tracked) /\ <>[][~UidListArrives]_vars) => <>[]Drained(1)
    /\ [][QuietStep => PopsAreAttempts]_vars

\* the queue held a record when a completion came, and the universe is
\* drained now
C23_Witness ==
    /\ ev.op = "UpdateUIDLabel"
    /\ ev.attempts # <<>>
    /\ \A i \in DOMAIN ev.attempts : ~ev.attempts[i].sent
    /\ Drained(1)

(***************************************************************************)
(* C24: a call of ResolveNextUID attempts the records of the queue in      *)
(* order, dropping each record whose send the transport rejects and going  *)
(* on to the next in the same call; it ends after at most as many attempts *)
(* as the queue held records, either with the last attempt accepted, that  *)
(* one request handed to the transport and uid_resolution_running true, or *)
(* with every attempt rejected, the queue empty and uid_resolution_running *)
(* false.                                                                  *)
(* Spec                                                                    *)
(***************************************************************************)
\* the step ran ResolveNextUID for a universe that has a state
ResolveCall ==
    \/ ev'.op = "UpdateUIDLabel" /\ ev'.universe \in Tracked
    \/ /\ ev'.op = "HandleUIDList"
       /\ ~(/\ ev'.universe \in Tracked
            /\ m_universe_uids[ev'.universe].uid_resolution_running)

\* the queue ResolveNextUID found
QueuedAtCall ==
    (IF ev'.universe \in Tracked
     THEN m_universe_uids[ev'.universe].pending_uids ELSE <<>>) \o ev'.pushed

QueueOf(m, universe) ==
    IF universe \in DOMAIN m THEN m[universe].pending_uids ELSE <<>>

\* the queue the step worked on: the queue before it and what it pushed
QueueWith(universe) ==
    QueueOf(m_universe_uids, universe)
       \o (IF ev'.universe = universe THEN ev'.pushed ELSE <<>>)

\* the sends the step attempted for a universe
AttemptsFor(universe) ==
    IF ev'.universe = universe THEN AttemptRecords(ev'.attempts) ELSE <<>>

\* the completion went on to ResolveNextUID: it attempted the front of a
\* queue that held a record and stopped the resolution of an empty one
CompletionResolvesNext ==
    ev'.op = "UpdateUIDLabel" =>
       /\ ev'.pushed = <<>>
       /\ ev'.universe \in Tracked =>
             IF QueueOf(m_universe_uids, ev'.universe) = <<>>
             THEN /\ ev'.attempts = <<>>
                  /\ ~m_universe_uids'[ev'.universe].uid_resolution_running
             ELSE ev'.attempts # <<>>

C25_AttemptedExactlyOnce ==
    [][/\ CompletionResolvesNext
       /\ \A u \in Universes :
             QueueWith(u) = AttemptsFor(u) \o QueueOf(m_universe_uids', u)
    ]_vars

(***************************************************************************)
(* C25 as the code has it: a record is attempted at most once.  While the  *)
(* universe stays in the map a record leaves the queue by the one attempt  *)
(* made for it; PruneUniverseList drops the queue of a universe it erases  *)
(* without an attempt; a completion for a universe that has no state       *)
(* returns before ResolveNextUID.                                          *)
(* Spec                                                                    *)
(***************************************************************************)
C25_AttemptedAtMostOnce ==
    [][/\ CompletionResolvesNext
       /\ \A u \in Universes :
             IF u \in DOMAIN m_universe_uids'
             THEN QueueWith(u) = AttemptsFor(u) \o QueueOf(m_universe_uids', u)
             ELSE AttemptsFor(u) = <<>>
       /\ (ev'.op = "UpdateUIDLabel" /\ ev'.universe \notin Tracked) =>
             /\ ev'.attempts = <<>>
             /\ UNCHANGED m_universe_uids
    ]_vars

\* a failed request completed and the next record of the queue was
\* attempted
C25_Witness ==
    /\ ev.op = "UpdateUIDLabel"
    /\ ev.status = "TRANSPORT_ERROR"
    /\ ev.attempts # <<>>
    /\ SomeSent(ev.attempts)

(***************************************************************************)
(* C26: a completion with a valid response for (universe, uid, action)     *)
(* writes the label of the response to the manufacturer field of the       *)
(* resolved entry of the UID when the action is RESOLVE_MANUFACTURER and   *)
(* to its device field when it is RESOLVE_DEVICE, and changes no other     *)
(* field, entry or universe; when the UID has no entry any more the label  *)
(* is dropped and no entry is created.                                     *)
(* Spec                                                                    *)
(***************************************************************************)
C26_ValidCompletionWritesOneField ==
    [][(/\ ev'.op = "UpdateUIDLabel"
        /\ ev'.status = "VALID_RESPONSE"
        /\ ev'.universe \in Tracked) =>
         LET before == m_universe_uids[ev'.universe].resolved_uids
             after == m_universe_uids'[ev'.universe].resolved_uids
         IN /\ DOMAIN m_universe_uids' = DOMAIN m_universe_uids
            /\ DOMAIN after = DOMAIN before
            /\ \A uid \in DOMAIN before :
                  after[uid] =
                    IF uid # ev'.uid THEN before[uid]
                    ELSE IF ev'.action = "RESOLVE_MANUFACTURER"
                    THEN [before[uid] EXCEPT !.manufacturer = ev'.value]
                    ELSE [before[uid] EXCEPT !.device = ev'.value]
            /\ \A u \in Tracked \ {ev'.universe} :
                  m_universe_uids'[u].resolved_uids
                     = m_universe_uids[u].resolved_uids
    ]_vars

\* the device label of UID 2 has arrived: it is in the device field of the
\* entry of UID 2, whose manufacturer field is still empty, and the entry
\* of UID 1 has no device label
C26_Witness ==
    /\ ev.op = "UpdateUIDLabel"
    /\ ev.status = "VALID_RESPONSE"
    /\ ev.uid = 2
    /\ ev.action = "RESOLVE_DEVICE"
    /\ 1 \in Tracked
    /\ DOMAIN m_universe_uids[1].resolved_uids = {1, 2}
    /\ m_universe_uids[1].resolved_uids[2].device = ev.value
    /\ m_universe_uids[1].resolved_uids[2].manufacturer = ""
    /\ m_universe_uids[1].resolved_uids[1].device = ""

(***************************************************************************)
(* C27: a completion whose status is not a valid response (broadcast,      *)
(* nack, malformed response, transport error) leaves the resolved entries  *)
(* of every universe as they were, replies to no request, and goes on to   *)
(* the next record of the queue.                                           *)
(* Spec                                                                    *)
(***************************************************************************)
C27_FailedCompletionKeepsLabels ==
    [][(/\ ev'.op = "UpdateUIDLabel"
        /\ ev'.status # "VALID_RESPONSE"
        /\ ev'.universe \in Tracked) =>
         LET queue == m_universe_uids[ev'.universe].pending_uids
             uid_state == m_universe_uids'[ev'.universe]
         IN /\ DOMAIN m_universe_uids' = DOMAIN m_universe_uids
            /\ \A u \in Tracked :
                  m_universe_uids'[u].resolved_uids
                     = m_universe_uids[u].resolved_uids
            /\ chain' = chain
            /\ discovery' = discovery
            /\ ev'.snapshot = <<>>
            /\ IF queue = <<>>
               THEN /\ ev'.attempts = <<>>
                    /\ ~uid_state.uid_resolution_running
               ELSE /\ ev'.attempts # <<>>
                    /\ ev'.attempts[1].uid = queue[1].uid
                    /\ ev'.attempts[1].action = queue[1].action
    ]_vars

\* the manufacturer request of UID 1 was nacked: the entry of UID 1 has no
\* manufacturer label and the device request of UID 1 was sent
C27_Witness ==
    /\ ev.op = "UpdateUIDLabel"
    /\ ev.status = "REQUEST_NACKED"
    /\ ev.uid = 1
    /\ ev.action = "RESOLVE_MANUFACTURER"
    /\ 1 \in Tracked
    /\ 1 \in DOMAIN m_universe_uids[1].resolved_uids
    /\ m_universe_uids[1].resolved_uids[1].manufacturer = ""
    /\ Len(ev.attempts) = 1
    /\ ev.attempts[1].uid = 1
    /\ ev.attempts[1].action = "RESOLVE_DEVICE"
    /\ ev.attempts[1].sent

(***************************************************************************)
(* C28: HandleUIDList leaves the manufacturer and the device label of      *)
(* every reported UID that had an entry as they were, and its reply shows, *)
(* for every reported UID, the labels of the entry the UID had, or empty   *)
(* labels when it had none.                                                *)
(* Spec                                                                    *)
(***************************************************************************)
C28_ReportKeepsCachedLabels ==
    [][ev'.op = "HandleUIDList" =>
         LET U == ev'.universe
             before == IF U \in Tracked
                       THEN m_universe_uids[U].resolved_uids
                       ELSE [u \in {} |-> NewResolvedUid]
             after == m_universe_uids'[U].resolved_uids
             shown == ev'.snapshot
         IN /\ \A uid \in ev'.uids \cap DOMAIN before :
                  /\ uid \in DOMAIN after
                  /\ after[uid].manufacturer = before[uid].manufacturer
                  /\ after[uid].device = before[uid].device
            /\ Len(shown) = Cardinality(ev'.uids)
            /\ {shown[i].uid : i \in DOMAIN shown} = ev'.uids
            /\ \A i \in DOMAIN shown :
                  shown[i] =
                    IF shown[i].uid \in DOMAIN before
                    THEN [uid |-> shown[i].uid,
                          manufacturer |-> before[shown[i].uid].manufacturer,
                          device |-> before[shown[i].uid].device]
                    ELSE [uid |-> shown[i].uid,
                          manufacturer |-> "", device |-> ""]
    ]_vars

\* UID 1 has both labels and UID 2 is new: the reply to the list {1, 2}
\* shows the labels of UID 1 and empty labels for UID 2, and the entry of
\* UID 1 has kept its labels
C28_Witness ==
    /\ ev.op = "HandleUIDList"
    /\ ev.uids = {1, 2}
    /\ ev.snapshot = <<[uid |-> 1, manufacturer |-> "Acme", device |-> "Acme"],
                       [uid |-> 2, manufacturer |-> "", device |-> ""]>>
    /\ QueuedUids(ev.pushed) = {2}
    /\ m_universe_uids[1].resolved_uids[1].manufacturer = "Acme"
    /\ m_universe_uids[1].resolved_uids[1].device = "Acme"

(***************************************************************************)
(* C29: for every pid of the supported list that the scan recognises, the  *)
(* list served holds a section with the section id of that pid:            *)
(* manufacturer label, device label, language, dmx address, device hours,  *)
(* lamp hours, product detail.                                             *)
(* SpecDiscovery                                                           *)
(***************************************************************************)
OwnSectionOf(pid) ==
    CASE pid = "PID_MANUFACTURER_LABEL"     -> "manufacturer_label"
      [] pid = "PID_DEVICE_LABEL"           -> "device_label"
      [] pid = "PID_LANGUAGE"               -> "language"
      [] pid = "PID_DMX_START_ADDRESS"      -> "dmx_address"
      [] pid = "PID_DEVICE_HOURS"           -> "device_hours"
      [] pid = "PID_LAMP_HOURS"             -> "lamp_hours"
      [] pid = "PID_PRODUCT_DETAIL_ID_LIST" -> "product_detail"
      [] OTHER                              -> ""

C29_OwnSectionOfEachPid ==
    discovery.done =>
       \A pid \in Range(discovery.pid_list) :
          OwnSectionOf(pid) # "" => SectionsWithId(OwnSectionOf(pid)) # <<>>

(***************************************************************************)
(* C30: every list of sections served holds the device info and the        *)
(* identify mode section, whatever the pid list and the status of the      *)
(* device info response; the device info section carries the hint 'm' if   *)
(* and only if PID_DEVICE_MODEL_DESCRIPTION is in the pid list.            *)
(* SpecDiscovery                                                           *)
(***************************************************************************)
C30_CoreSectionsAndModelHint ==
    /\ \A reply \in Range(chain.replies) :
          reply.kind = "Sections" =>
             /\ discovery.done
             /\ reply.sections = discovery.sections
    /\ discovery.done =>
          /\ Len(SectionsWithId("device_info")) = 1
          /\ Len(SectionsWithId("identify")) = 1
          /\ SectionsWithId("device_info")[1].name = <<"Device Info">>
          /\ SectionsWithId("identify")[1].name = <<"Identify Mode">>
          /\ SectionsWithId("device_info")[1].hint \in {"", "m"}
          /\ SectionsWithId("device_info")[1].hint = "m"
                <=> "PID_DEVICE_MODEL_DESCRIPTION"
                       \in Range(discovery.pid_list)

\* a list served after a device info response that failed, for a pid list
\* with the device model pid: the device info section carries the hint
C30_Witness ==
    /\ ev.op = "SupportedSectionsDeviceInfoHandler"
    /\ RepliedWith("Sections")
    /\ discovery.status = "TRANSPORT_ERROR"
    /\ discovery.pid_list
          = <<"PID_PRODUCT_DETAIL_ID_LIST", "PID_DEVICE_MODEL_DESCRIPTION">>
    /\ SectionsWithId("device_info")[1].hint = "m"
    /\ SectionsWithId("identify") # <<>>

(***************************************************************************)
(* C31: the device info chain asks for the software version label, then    *)
(* for the device model description if and only if the request carries the *)
(* model hint, then always for the device descriptor; a model description  *)
(* step that was rejected is tolerated (the chain goes on, with nothing    *)
(* collected from it), while every outcome of the device descriptor step   *)
(* other than a valid response makes the whole chain fail with an error.   *)
(* SpecDispatch                                                            *)
(***************************************************************************)
OneCall(method) == <<[method |-> method, arg |-> ""]>>

DeviceInfoChainStep ==
    /\ ev'.op = "JsonSectionInfo" /\ ev'.section = "device_info"
         /\ ev'.calls # <<>>
       => /\ ev'.calls = OneCall("GetSoftwareVersionLabel")
          /\ chain'.bound = NoBound
    /\ ev'.op = "GetSoftwareVersionHandler"
       => /\ ev.op = "JsonSectionInfo" /\ ev.section = "device_info"
          /\ ev'.calls = IF chain.hint = "m"
                         THEN OneCall("GetDeviceModelDescription")
                         ELSE OneCall("GetDeviceInfo")
    /\ ev'.op = "GetDeviceModelHandler"
       => /\ ev.op = "GetSoftwareVersionHandler"
          /\ chain.hint = "m"
          /\ ev'.calls = OneCall("GetDeviceInfo")
          /\ ev'.status # "VALID_RESPONSE"
                => chain'.bound.device_model = ""
          /\ chain'.bound.software_version = chain.bound.software_version
    /\ ev'.op = "GetDeviceInfoHandler"
       => /\ \/ ev.op = "GetSoftwareVersionHandler" /\ chain.hint # "m"
             \/ ev.op = "GetDeviceModelHandler" /\ chain.hint = "m"
          /\ ev'.calls = <<>>
          /\ chain'.callback = ""
          /\ IF ev'.status = "VALID_RESPONSE"
             THEN /\ Len(chain'.replies) = 1
                  /\ chain'.replies[1].kind = "Section"
             ELSE chain'.replies =
                    <<[kind |-> "Error",
                       text |-> <<ErrorOfClass[ev'.status]>>]>>

C31_DeviceInfoChainOrder == [][DeviceInfoChainStep]_vars

\* the model description was rejected and the chain has gone on to ask for
\* the device descriptor, keeping the software version it had collected
C31_Witness ==
    /\ ev.op = "GetDeviceModelHandler"
    /\ ev.status = "REQUEST_NACKED"
    /\ ev.calls = OneCall("GetDeviceInfo")
    /\ chain.callback = "GetDeviceInfoHandler"
    /\ chain.bound.device_model = ""
    /\ chain.bound.software_version = "1.2"

(***************************************************************************)
(* C32: in the device info section the "Device Model" and the "Software    *)
(* Version" item each read "<collected> (<number of the descriptor>)" when *)
(* the chain has collected a non-empty string for it and the number of the *)
(* descriptor alone when it has not; the chain has collected a non-empty   *)
(* string only from a step that completed with a valid response.           *)
(* SpecDispatch                                                            *)
(***************************************************************************)
Rendered(collected, native) ==
    IF collected # "" THEN <<collected, " (", native, ")">> ELSE <<native>>

ItemNamed(reply, description) ==
    CHOOSE item \in Range(reply.items) : item.description = description

DeviceInfoRendering ==
    /\ ev'.op = "JsonSectionInfo" => chain'.bound = NoBound
    /\ ev'.op = "GetSoftwareVersionHandler"
       => /\ chain'.bound.device_model = ""
          /\ chain'.bound.software_version # ""
                => /\ ev'.status = "VALID_RESPONSE"
                   /\ chain'.bound.software_version = ev'.data.value
    /\ ev'.op = "GetDeviceModelHandler"
       => /\ chain'.bound.software_version = chain.bound.software_version
          /\ chain'.bound.device_model # ""
                => /\ ev'.status = "VALID_RESPONSE"
                   /\ chain'.bound.device_model = ev'.data.value
    /\ ev'.op = "GetDeviceInfoHandler" /\ ev'.status = "VALID_RESPONSE"
       => LET reply == chain'.replies[1]
              device == ev'.data.device
          IN /\ Cardinality({i \in DOMAIN reply.items :
                   reply.items[i].description
                      \in {"Device Model", "Software Version"}}) = 2
             /\ ItemNamed(reply, "Device Model").value
                   = Rendered(chain.bound.device_model,
                              DecimalString(device.device_model))
             /\ ItemNamed(reply, "Software Version").value
                   = Rendered(chain.bound.software_version,
                              DecimalString(device.software_version))

C32_DeviceInfoRendering == [][DeviceInfoRendering]_vars

\* a section with a collected model and no collected software version
C32_Witness ==
    /\ ev.op = "GetDeviceInfoHandler"
    /\ ev.status = "VALID_RESPONSE"
    /\ chain.bound.device_model = "Par"
    /\ chain.bound.software_version = ""
    /\ ItemNamed(chain.replies[1], "Device Model").value
          = <<"Par", " (", "3", ")">>
    /\ ItemNamed(chain.replies[1], "Software Version").value = <<"2">>

(***************************************************************************)
(* C33: the language chain asks for the supported languages and then for   *)
(* the active language; its section has one option per supported language, *)
(* in the order of the list; the active language is selected if and only   *)
(* if its fetch succeeded and it is in the list; when the list is empty    *)
(* and the fetch of the active language succeeded, the section has exactly *)
(* one option, the active language, and it is selected.                    *)
(* SpecDispatch                                                            *)
(***************************************************************************)
LanguageChainStep ==
    /\ ev'.op = "JsonSectionInfo" /\ ev'.section = "language"
         /\ ev'.calls # <<>>
       => ev'.calls = OneCall("GetLanguageCapabilities")
    /\ ev'.op = "GetSupportedLanguagesHandler"
       => /\ ev.op = "JsonSectionInfo" /\ ev.section = "language"
          /\ ev'.calls = OneCall("GetLanguage")
          /\ chain'.bound.languages = ev'.data.list
    /\ ev'.op = "GetLanguageHandler"
       => LET languages == chain.bound.languages
              ok == ev'.status = "VALID_RESPONSE"
              language == ev'.data.value
              item == chain'.replies[1].items[1]
          IN /\ ev.op = "GetSupportedLanguagesHandler"
             /\ Len(chain'.replies) = 1
             /\ chain'.replies[1].kind = "Section"
             /\ Len(chain'.replies[1].items) = 1
             /\ IF languages = <<>> /\ ok
                THEN /\ item.options = <<language>>
                     /\ SelectedOptions(item) = {language}
                ELSE /\ item.options = languages
                     /\ SelectedOptions(item) \in {{}, {language}}
                     /\ SelectedOptions(item) = {language}
                           <=> ok /\ language \in Range(languages)

C33_LanguageOptions == [][LanguageChainStep]_vars

\* a list that names the active language twice: both offsets selected
C33_Witness ==
    /\ ev.op = "GetLanguageHandler"
    /\ ev.status = "VALID_RESPONSE"
    /\ ev.data.value = "fr"
    /\ chain.replies[1].items[1].options = <<"fr", "en", "fr">>
    /\ chain.replies[1].items[1].offsets = <<0, 2>>

(***************************************************************************)
(* C34: the boot software chain asks for the boot label and then for the   *)
(* boot version number, and its section reads "<label> (<version>)" when   *)
(* the label is not empty and "<version>" alone when the label is empty.   *)
(* As stated this fails: the version is written only when its fetch        *)
(* succeeded.  C34_BootSoftwareRenderingWhenValid adds that condition and  *)
(* the other case: after a failed fetch the section reads the label alone. *)
(* SpecDispatch                                                            *)
(***************************************************************************)
BootSoftwareChainOrder ==
    /\ ev'.op = "JsonSectionInfo" /\ ev'.section = "boot_software"
         /\ ev'.calls # <<>>
       => ev'.calls = OneCall("GetBootSoftwareVersionLabel")
    /\ ev'.op = "GetBootSoftwareLabelHandler"
       => /\ ev.op = "JsonSectionInfo" /\ ev.section = "boot_software"
          /\ ev'.calls = OneCall("GetBootSoftwareVersion")
          /\ chain'.bound.label = ev'.data.value
    /\ ev'.op = "GetBootSoftwareVersionHandler"
       => /\ ev.op = "GetBootSoftwareLabelHandler"
          /\ Len(chain'.replies) = 1
          /\ chain'.replies[1].kind = "Section"
          /\ Len(chain'.replies[1].items) = 1
          /\ chain'.replies[1].items[1].description = "Boot Software"

BootSoftwareShown == chain'.replies[1].items[1].value

\* the string with the empty pieces left out, which is what is shown
Shown(pieces) == SelectSeq(pieces, LAMBDA piece : piece # "")

C34_BootSoftwareRendering ==
    [][/\ BootSoftwareChainOrder
       /\ ev'.op = "GetBootSoftwareVersionHandler"
          => Shown(BootSoftwareShown)
               = Rendered(chain.bound.label,
                          DecimalString(ev'.data.number))]_vars

C34_BootSoftwareRenderingWhenValid ==
    [][/\ BootSoftwareChainOrder
       /\ ev'.op = "GetBootSoftwareVersionHandler"
          => Shown(BootSoftwareShown)
               = IF ev'.status = "VALID_RESPONSE"
                 THEN Rendered(chain.bound.label,
                               DecimalString(ev'.data.number))
                 ELSE Shown(<<chain.bound.label>>)]_vars

\* the fetch of the version failed: the section shows the label alone
C34_Witness ==
    /\ ev.op = "GetBootSoftwareVersionHandler"
    /\ ev.status = "REQUEST_NACKED"
    /\ ev.data.number = 3
    /\ chain.bound.label = "boot"
    /\ chain.replies[1].items[1].value = <<"boot">>

(***************************************************************************)
(* C35: for every tracked universe, between two steps of the event loop,   *)
(* uid_resolution_running = false implies that pending_uids is empty: no   *)
(* sequence of UID lists, rejected sends and completions leaves queued     *)
(* records with no resolution running.                                     *)
(* Spec                                                                    *)
(***************************************************************************)
C35_IdleMeansEmptyQueue ==
    \A universe \in DOMAIN m_universe_uids :
       ~m_universe_uids[universe].uid_resolution_running
          => m_universe_uids[universe].pending_uids = <<>>

\* a UID list whose four records were all rejected by the transport: the
\* queue is empty and no resolution is running
C35_Witness ==
    /\ ev.op = "HandleUIDList"
    /\ Len(ev.pushed) = 4
    /\ Len(ev.attempts) = 4
    /\ \A i \in DOMAIN ev.attempts : ~ev.attempts[i].sent
    /\ ~m_universe_uids[1].uid_resolution_running
    /\ m_universe_uids[1].pending_uids = <<>>

(***************************************************************************)
(* C36: pending_uids of a universe never holds two records with the same   *)
(* (uid, action) pair, so it is never longer than twice the number of      *)
(* UIDs; also when a UID leaves the UID list and is back in a later one    *)
(* while its earlier records are still queued behind an outstanding        *)
(* request.                                                                *)
(* Spec                                                                    *)
(***************************************************************************)
C36_NoDuplicateRecords ==
    \A universe \in DOMAIN m_universe_uids :
       LET pending == m_universe_uids[universe].pending_uids
       IN /\ \A i, j \in DOMAIN pending : pending[i] = pending[j] => i = j
          /\ Len(pending) <= 2 * Cardinality(UIDs)

(***************************************************************************)
(* C37: when a label request completes for a universe that has no state at *)
(* that moment (PruneUniverseList destroyed it while the request was in    *)
(* flight and no UID list has created it again), the completion changes    *)
(* nothing: it does not create the state of the universe, writes no label  *)
(* and sends no further request.                                           *)
(* SpecUniverses                                                           *)
(***************************************************************************)
CompletionForUntracked ==
    /\ ev'.op = "UpdateUIDLabel"
    /\ ev'.universe \notin DOMAIN m_universe_uids

C37_UntrackedCompletionChangesNothing ==
    [][CompletionForUntracked
         => /\ m_universe_uids' = m_universe_uids
            /\ ev'.attempts = <<>>
            /\ outstanding' =
                  outstanding (-) SetToBag({[universe |-> ev'.universe,
                                             uid |-> ev'.uid,
                                             action |-> ev'.action]})]_vars

\* a valid label has arrived for universe 1, which was pruned, while
\* universe 2 is tracked with its own request in flight
C37_Witness ==
    /\ ev.op = "UpdateUIDLabel"
    /\ ev.universe = 1
    /\ ev.status = "VALID_RESPONSE"
    /\ ev.value = "Acme"
    /\ DOMAIN m_universe_uids = {2}
    /\ BagCardinality(outstanding) = 1

(***************************************************************************)
(* C38: a UID list that arrives with an error leaves the whole resolution  *)
(* state as it was: no state of a universe is created, no entry is added   *)
(* or evicted, nothing is enqueued and no label request is sent.           *)
(* Spec                                                                    *)
(***************************************************************************)
C38_ErrorReportChangesNothing ==
    [][ev'.op = "HandleUIDListError"
         => /\ m_universe_uids' = m_universe_uids
            /\ outstanding' = outstanding
            /\ ev'.pushed = <<>>
            /\ ev'.attempts = <<>>]_vars

\* an error for the universe after its state was pruned, with a label
\* request still in flight: the universe stays without state
C38_Witness ==
    /\ ev.op = "HandleUIDListError"
    /\ ev.universe = 1
    /\ DOMAIN m_universe_uids = {}
    /\ BagCardinality(outstanding) = 1

(***************************************************************************)
(* C39: the chains of the section requests never change pending_uids or    *)
(* uid_resolution_running of a universe and never create or evict an       *)
(* entry of resolved_uids or the state of a universe; the one change they  *)
(* make is that a manufacturer label or device label that was read with a  *)
(* valid response overwrites that label of the entry of the UID, when the  *)
(* entry exists.                                                           *)
(* SpecCache                                                               *)
(***************************************************************************)
ResolutionOps ==
    {"none", "HandleUIDList", "HandleUIDListError", "UpdateUIDLabel",
     "PruneUniverseList"}

\* the entry of `uid' after a step of a chain
EntryAfterChainStep(universe, uid) ==
    LET entry == m_universe_uids[universe].resolved_uids[uid]
        read == ev'.status = "VALID_RESPONSE"
                  /\ universe = chain.universe /\ uid = chain.uid
    IN IF read /\ ev'.op = "GetManufacturerLabelHandler"
         THEN [entry EXCEPT !.manufacturer = ev'.data.value]
       ELSE IF read /\ ev'.op = "GetDeviceLabelHandler"
         THEN [entry EXCEPT !.device = ev'.data.value]
       ELSE entry

ChainStepKeepsResolution ==
    ev'.op \notin ResolutionOps
      => /\ outstanding' = outstanding
         /\ DOMAIN m_universe_uids' = DOMAIN m_universe_uids
         /\ \A universe \in DOMAIN m_universe_uids :
               LET before == m_universe_uids[universe]
                   after == m_universe_uids'[universe]
               IN /\ after.pending_uids = before.pending_uids
                  /\ after.uid_resolution_running
                        = before.uid_resolution_running
                  /\ after.active = before.active
                  /\ DOMAIN after.resolved_uids = DOMAIN before.resolved_uids
                  /\ \A uid \in DOMAIN before.resolved_uids :
                        after.resolved_uids[uid]
                           = EntryAfterChainStep(universe, uid)

C39_ChainsKeepResolutionState == [][ChainStepKeepsResolution]_vars

\* a device label read by a section request has replaced the empty label of
\* an entry whose manufacturer label the resolution had stored
C39_Witness ==
    /\ ev.op = "GetDeviceLabelHandler"
    /\ ev.status = "VALID_RESPONSE"
    /\ 1 \in DOMAIN m_universe_uids
    /\ 1 \in DOMAIN m_universe_uids[1].resolved_uids
    /\ m_universe_uids[1].resolved_uids[1].manufacturer = "Acme"
    /\ m_universe_uids[1].resolved_uids[1].device = "Stage left"
    /\ m_universe_uids[1].uid_resolution_running

(***************************************************************************)
(* C40: in every list of sections that a discovery serves, each section id *)
(* other than the sensor id occurs at most once, for every pid list,       *)
(* also one that holds both PID_DEVICE_HOURS and PID_LAMP_HOURS and one    *)
(* that repeats a pid.                                                     *)
(* SpecDiscovery                                                           *)
(***************************************************************************)
C40_SectionIdsAtMostOnce ==
    discovery.done =>
       \A i, j \in DOMAIN discovery.sections :
          /\ discovery.sections[i].id = discovery.sections[j].id
          /\ discovery.sections[i].id # SENSOR_SECTION
          => i = j

=============================================================================
